---- MODULE Spec2Model ----
(***************************************************************************)
(* Advanced CODEOWNERS (robandpdx/advanced-codeowners-aws): a model of the *)
(* requirement resolver (findApprovers), the satisfaction checker          *)
(* (checkReviewerSatisfaction), the quorum evaluation                      *)
(* (getAllApprovedReviews, checkAllApprovalCriteriaMet) and the two event  *)
(* handlers of src/unnamed/part_000.                                       *)
(*                                                                         *)
(* Seven specifications share the definitions:                             *)
(*   SpecResolve       findApprovers applied to policies and change sets   *)
(*   SpecSatisfaction  checkReviewerSatisfaction applied to reviewers      *)
(*   SpecQuorum        the quorum evaluation over a growing review history *)
(*   Spec              the webhook handlers against a changing repository  *)
(*   SpecCompletion    the review_submitted handler run await by await     *)
(*   SpecConcurrent    two handlers running at once, interleaved at awaits *)
(*   SpecNormalise     findApprovers on the shapes of owners values        *)
(***************************************************************************)
EXTENDS Integers, Sequences, FiniteSets, TLC

VARIABLES
    configs,              \* repository: config file of each team, as yaml.load returns it (or unreadable)
    prFiles,              \* pull request: filenames as pulls.listFiles returns them
    requestedTeams,       \* pull request: requested_teams (names, in order)
    reviews,              \* pull request: review history as pulls.listReviews returns it
    membership,           \* organisation: outcome of teams.getMembershipForUserInOrg per <<user, team>>
    fileApproverMap,      \* last result of findApprovers: Map file -> individual approvers
    fileTeamApproverMap,  \* last result of findApprovers: Map file -> team approvers
    requestMaps,          \* history: what the last review_requested handler resolved, and from what
    evalCur,              \* the last quorum evaluation: what it listed and what it returned
    evalPrev,             \* the quorum evaluation before that
    apiLog,               \* API actions issued by the last handler that ran
    lastEvent,            \* the webhook event the last handler ran for
    reviewerCheck,        \* the last result of checkReviewerSatisfaction called on its own, and for whom
    pc,                   \* the await at which the review_submitted handler stands, when it runs step by step
    events                \* number of steps taken so far

vars == <<configs, prFiles, requestedTeams, reviews, membership, fileApproverMap,
          fileTeamApproverMap, requestMaps, evalCur, evalPrev, apiLog, lastEvent,
          reviewerCheck, pc, events>>

----------------------------------------------------------------------------
(* Bounds of the model *)

MaxRules == 2      \* rules of one policy
MaxFiles == 2      \* files of one change set
MaxReviews == 2    \* records of one review history
MaxTime == 2       \* submission times 1..MaxTime
MaxEvents == 3     \* steps of one behaviour of the handlers: events and changes of the repository

----------------------------------------------------------------------------
(* Universe: identities, paths and patterns *)

Users == {"alice", "bob"}
Teams == {"pdf-team", "backend-team"}

ApproverTeam == "backend-approvers"
OtherApproverTeam == "frontend-approvers"
PlainTeam == "qa-team"
TeamNames == {ApproverTeam, OtherApproverTeam, PlainTeam}

Files == {"backend/report.pdf", "backend/a/b/report.pdf", "backend/src/app.js",
          "docs/guide.md", "docs/api/index.md"}

Patterns == {"backend/**/*.pdf", "backend/**/*", "docs/*"}

Range(s) == {s[i] : i \in 1..Len(s)}

SeqsUpTo(S, n) == UNION {[1..k -> S] : k \in 0..n}

IsPrefix(s, t) == Len(s) <= Len(t) /\ SubSeq(t, 1, Len(s)) = s

NoDup(s) == \A i, j \in 1..Len(s) : i # j => s[i] # s[j]

----------------------------------------------------------------------------
(* JavaScript Set and Map: both keep insertion order *)

\* Set.prototype.add on an insertion-ordered set
SetAdd(s, x) == IF x \in Range(s) THEN s ELSE Append(s, x)

\* items.forEach(x => set.add(x))
RECURSIVE AddAll(_, _)
AddAll(s, items) ==
    IF items = <<>> THEN s ELSE AddAll(SetAdd(s, Head(items)), Tail(items))

MapHas(m, k) == \E i \in 1..Len(m) : m[i].key = k

MapGet(m, k) == m[CHOOSE i \in 1..Len(m) : m[i].key = k].val

MapSet(m, k, v) ==
    IF MapHas(m, k)
    THEN [i \in 1..Len(m) |-> IF m[i].key = k THEN [key |-> k, val |-> v] ELSE m[i]]
    ELSE Append(m, [key |-> k, val |-> v])

MapKeys(m) == [i \in 1..Len(m) |-> m[i].key]

\* fileTeamApproverMap.get(filePath) || []
MapGetOrEmpty(m, k) == IF MapHas(m, k) THEN MapGet(m, k) ELSE <<>>

----------------------------------------------------------------------------
(* minimatch(filePath, pattern): default options (no dot, no matchBase) *)

\* a path split at "/", each segment split into the tokens the patterns tell apart
PathSegments(f) ==
    CASE f = "backend/report.pdf"     -> << <<"backend">>, <<"report", ".pdf">> >>
      [] f = "backend/a/b/report.pdf" -> << <<"backend">>, <<"a">>, <<"b">>, <<"report", ".pdf">> >>
      [] f = "docs/guide.md"          -> << <<"docs">>, <<"guide", ".md">> >>
      [] f = "docs/api/index.md"      -> << <<"docs">>, <<"api">>, <<"index", ".md">> >>
      [] f = "backend/src/app.js"     -> << <<"backend">>, <<"src">>, <<"app", ".js">> >>

\* a pattern split at "/": "**" is the globstar segment, "*" the wildcard inside a segment
PatternSegments(p) ==
    CASE p = "backend/**/*.pdf" -> << <<"backend">>, <<"**">>, <<"*", ".pdf">> >>
      [] p = "backend/**/*"     -> << <<"backend">>, <<"**">>, <<"*">> >>
      [] p = "docs/*"           -> << <<"docs">>, <<"*">> >>

IsGlobStar(seg) == seg = <<"**">>

\* "*" inside one segment: any run of characters, never a "/"
RECURSIVE SegmentMatch(_, _)
SegmentMatch(pat, seg) ==
    IF pat = <<>> THEN seg = <<>>
    ELSE IF Head(pat) = "*"
         THEN \E k \in 0..Len(seg) : SegmentMatch(Tail(pat), SubSeq(seg, k + 1, Len(seg)))
         ELSE seg # <<>> /\ Head(seg) = Head(pat) /\ SegmentMatch(Tail(pat), Tail(seg))

\* a globstar that stands for one or more whole segments, never for none
RECURSIVE MatchSegments_OneOrMore(_, _)
MatchSegments_OneOrMore(pat, path) ==
    IF pat = <<>> THEN path = <<>>
    ELSE IF IsGlobStar(Head(pat))
         THEN \E k \in 1..Len(path) :
                  MatchSegments_OneOrMore(Tail(pat), SubSeq(path, k + 1, Len(path)))
         ELSE /\ path # <<>>
              /\ Head(path) # <<>>
              /\ SegmentMatch(Head(pat), Head(path))
              /\ MatchSegments_OneOrMore(Tail(pat), Tail(path))

\* segment by segment; "**" stands for zero or more whole segments
RECURSIVE MatchSegments(_, _)
MatchSegments(pat, path) ==
    IF pat = <<>> THEN path = <<>>
    ELSE IF IsGlobStar(Head(pat))
         THEN \E k \in 0..Len(path) : MatchSegments(Tail(pat), SubSeq(path, k + 1, Len(path)))
         ELSE /\ path # <<>>
              /\ Head(path) # <<>>
              /\ SegmentMatch(Head(pat), Head(path))
              /\ MatchSegments(Tail(pat), Tail(path))

minimatch(filePath, pattern) ==
    MatchSegments(PatternSegments(pattern), PathSegments(filePath))

----------------------------------------------------------------------------
(* The policy as yaml.load returns it *)

\* an `owners` / `team-owners` value: absent, one string, or a list
Absent == [kind |-> "absent", val |-> <<>>]
Str(x) == [kind |-> "string", val |-> <<x>>]
Arr(q) == [kind |-> "array", val |-> q]

Rule(p, o, t) == [pattern |-> p, owners |-> o, teamOwners |-> t]

\* the owners a rule can carry in this model
OwnerCombos ==
    { <<Absent, Absent>>,
      <<Absent, Arr(<<"pdf-team">>)>>,
      <<Arr(<<"alice">>), Arr(<<"backend-team">>)>>,
      <<Str("alice"), Str("backend-team")>>,
      <<Arr(<<"bob", "alice", "bob">>), Str("pdf-team")>> }

RuleSet == {Rule(p, c[1], c[2]) : p \in Patterns, c \in OwnerCombos}

NoFallback == [present |-> FALSE, owners |-> Absent, teamOwners |-> Absent]
Fallback(o, t) == [present |-> TRUE, owners |-> o, teamOwners |-> t]

FallbackSet ==
    { NoFallback,
      Fallback(Arr(<<"bob", "bob">>), Absent),
      Fallback(Str("bob"), Arr(<<"backend-team">>)) }

\* readable |-> FALSE: readApproversConfig returned null
Policy(rs, fb) == [readable |-> TRUE, patterns |-> rs, fallback |-> fb]
NullConfig == [readable |-> FALSE, patterns |-> <<>>, fallback |-> NoFallback]

PolicySet == {Policy(rs, fb) : rs \in SeqsUpTo(RuleSet, MaxRules), fb \in FallbackSet}

\* pulls.listFiles lists the changed files by name
FileOrder == <<"backend/a/b/report.pdf", "backend/report.pdf", "backend/src/app.js",
               "docs/api/index.md", "docs/guide.md">>

ListInOrder(S) == SelectSeq(FileOrder, LAMBDA f : f \in S)

FileLists == {ListInOrder(S) : S \in {T \in SUBSET Files : Cardinality(T) <= MaxFiles}}

----------------------------------------------------------------------------
(* findApprovers *)

\* AddOwners with last-match-wins: a rule's owners replace what earlier rules gave
AddOwners_LastMatchWins(acc, field) ==
    IF field.kind = "array" THEN AddAll(<<>>, field.val)
    ELSE IF field.kind = "string" THEN <<field.val[1]>>
    ELSE acc

\* AddOwners that takes lists only: a value that is one string adds nothing
AddOwners_ArraysOnly(acc, field) ==
    IF field.kind = "array" THEN AddAll(acc, field.val) ELSE acc

\* `if (x.owners)`: an array is truthy, also an empty one; a string is truthy unless empty
Truthy(field) ==
    \/ field.kind = "array"
    \/ field.kind = "string" /\ field.val[1] # ""

\* the body of `if (x.owners) { if (Array.isArray ...) ... else if (typeof ... === 'string') ... }`
AddOwners(acc, field) ==
    IF ~Truthy(field) THEN acc
    ELSE IF field.kind = "array" THEN AddAll(acc, field.val)
    ELSE IF field.kind = "string" THEN SetAdd(acc, field.val[1])
    ELSE acc

\* the loop over approversConfig.patterns for one file; acc is <<approvers, teamApprovers>>
RECURSIVE PatternLoop(_, _, _)
PatternLoop(filePath, patterns, acc) ==
    IF patterns = <<>> THEN acc
    ELSE LET patternConfig == Head(patterns)
             next == IF minimatch(filePath, patternConfig.pattern)
                     THEN <<AddOwners(acc[1], patternConfig.owners),
                            AddOwners(acc[2], patternConfig.teamOwners)>>
                     ELSE acc
         IN  PatternLoop(filePath, Tail(patterns), next)

\* ApplyFallback deciding for individuals and teams separately
ApplyFallback_PerKind(acc, approversConfig) ==
    << IF Len(acc[1]) = 0 /\ approversConfig.fallback.present
       THEN AddOwners(acc[1], approversConfig.fallback.owners) ELSE acc[1],
       IF Len(acc[2]) = 0 /\ approversConfig.fallback.present
       THEN AddOwners(acc[2], approversConfig.fallback.teamOwners) ELSE acc[2] >>

\* ApplyFallback that copies the fallback's owners and forgets its team-owners
ApplyFallback_OwnersOnly(acc, approversConfig) ==
    IF Len(acc[1]) = 0 /\ Len(acc[2]) = 0 /\ approversConfig.fallback.present
    THEN <<AddOwners(acc[1], approversConfig.fallback.owners), acc[2]>>
    ELSE acc

\* the fallback step for one file
ApplyFallback(acc, approversConfig) ==
    IF Len(acc[1]) = 0 /\ Len(acc[2]) = 0 /\ approversConfig.fallback.present
    THEN <<AddOwners(acc[1], approversConfig.fallback.owners),
           AddOwners(acc[2], approversConfig.fallback.teamOwners)>>
    ELSE acc

\* <<approvers, teamApprovers>> of one file
FileApprovers(filePath, approversConfig) ==
    ApplyFallback(PatternLoop(filePath, approversConfig.patterns, <<<<>>, <<>>>>),
                  approversConfig)

\* StoreFile that leaves out a file nobody has to approve
StoreFile_SkipEmpty(maps, filePath, a) ==
    IF a[1] = <<>> /\ a[2] = <<>> THEN maps
    ELSE <<MapSet(maps[1], filePath, a[1]), MapSet(maps[2], filePath, a[2])>>

\* fileApproverMap.set(filePath, ...); fileTeamApproverMap.set(filePath, ...)
StoreFile(maps, filePath, a) ==
    <<MapSet(maps[1], filePath, a[1]), MapSet(maps[2], filePath, a[2])>>

\* the loop over files.data; maps is <<fileApproverMap, fileTeamApproverMap>>
RECURSIVE FilesLoop(_, _, _)
FilesLoop(files, approversConfig, maps) ==
    IF files = <<>> THEN maps
    ELSE LET filePath == Head(files)
         IN  FilesLoop(Tail(files), approversConfig,
                       StoreFile(maps, filePath, FileApprovers(filePath, approversConfig)))

findApprovers(files, approversConfig) == FilesLoop(files, approversConfig, <<<<>>, <<>>>>)

----------------------------------------------------------------------------
(* checkReviewerSatisfaction *)

Outcomes == {"active", "pending", "error"}   \* state 'active', another state, or the call throws

\* allTeamApprovers: every team of fileTeamApproverMap, once, in insertion order
RECURSIVE AllValues(_, _)
AllValues(m, acc) ==
    IF m = <<>> THEN acc ELSE AllValues(Tail(m), AddAll(acc, Head(m).val))

\* a membership loop that takes every answered lookup, whatever its state, as membership
RECURSIVE MembershipLoop_AnyState(_, _, _, _)
MembershipLoop_AnyState(teams, reviewer, mem, acc) ==
    IF teams = <<>> THEN acc
    ELSE MembershipLoop_AnyState(Tail(teams), reviewer, mem,
                                 IF mem[<<reviewer, Head(teams)>>] # "error"
                                 THEN SetAdd(acc, Head(teams)) ELSE acc)

\* a membership loop without the try/catch: the first lookup that throws ends the loop
RECURSIVE MembershipLoop_AbortOnError(_, _, _, _)
MembershipLoop_AbortOnError(teams, reviewer, mem, acc) ==
    IF teams = <<>> THEN acc
    ELSE IF mem[<<reviewer, Head(teams)>>] = "error" THEN acc
    ELSE MembershipLoop_AbortOnError(Tail(teams), reviewer, mem,
                                     IF mem[<<reviewer, Head(teams)>>] = "active"
                                     THEN SetAdd(acc, Head(teams)) ELSE acc)

\* the membership loop: one lookup per team; only state 'active' adds the team
RECURSIVE MembershipLoop(_, _, _, _)
MembershipLoop(teams, reviewer, mem, acc) ==
    IF teams = <<>> THEN acc
    ELSE MembershipLoop(Tail(teams), reviewer, mem,
                        IF mem[<<reviewer, Head(teams)>>] = "active"
                        THEN SetAdd(acc, Head(teams)) ELSE acc)

\* the forEach without the !satisfiedAsTeamMember.includes(team) test
RECURSIVE PushMemberTeams_NoDedup(_, _, _)
PushMemberTeams_NoDedup(teamApprovers, teamMemberships, acc) ==
    IF teamApprovers = <<>> THEN acc
    ELSE PushMemberTeams_NoDedup(Tail(teamApprovers), teamMemberships,
                                 IF Head(teamApprovers) \in Range(teamMemberships)
                                 THEN Append(acc, Head(teamApprovers)) ELSE acc)

\* teamApprovers.forEach(team => { if (teamMemberships.has(team) && !includes(team)) push })
RECURSIVE PushMemberTeams(_, _, _)
PushMemberTeams(teamApprovers, teamMemberships, acc) ==
    IF teamApprovers = <<>> THEN acc
    ELSE PushMemberTeams(Tail(teamApprovers), teamMemberships,
                         IF Head(teamApprovers) \in Range(teamMemberships)
                            /\ Head(teamApprovers) \notin Range(acc)
                         THEN Append(acc, Head(teamApprovers)) ELSE acc)

\* the loop over fileApproverMap counting a file that requires nobody as satisfied
RECURSIVE SatisfactionLoop_EmptyIsSatisfied(_, _, _, _, _)
SatisfactionLoop_EmptyIsSatisfied(entries, ftam, reviewer, teamMemberships, acc) ==
    IF entries = <<>> THEN acc
    ELSE LET filePath == Head(entries).key
             approvers == Head(entries).val
             teamApprovers == MapGetOrEmpty(ftam, filePath)
             isIndividualApprover == reviewer \in Range(approvers)
             isTeamMember == \E i \in 1..Len(teamApprovers) :
                                 teamApprovers[i] \in Range(teamMemberships)
             next == IF isIndividualApprover \/ isTeamMember
                        \/ (approvers = <<>> /\ teamApprovers = <<>>)
                     THEN [satisfiedFiles |-> Append(acc.satisfiedFiles, filePath),
                           satisfiedAsIndividual |->
                               acc.satisfiedAsIndividual \/ isIndividualApprover,
                           satisfiedAsTeamMember |->
                               IF isTeamMember
                               THEN PushMemberTeams(teamApprovers, teamMemberships,
                                                    acc.satisfiedAsTeamMember)
                               ELSE acc.satisfiedAsTeamMember]
                     ELSE acc
         IN  SatisfactionLoop_EmptyIsSatisfied(Tail(entries), ftam, reviewer,
                                               teamMemberships, next)

\* the loop over fileApproverMap
RECURSIVE SatisfactionLoop(_, _, _, _, _)
SatisfactionLoop(entries, ftam, reviewer, teamMemberships, acc) ==
    IF entries = <<>> THEN acc
    ELSE LET filePath == Head(entries).key
             approvers == Head(entries).val
             teamApprovers == MapGetOrEmpty(ftam, filePath)
             isIndividualApprover == reviewer \in Range(approvers)
             isTeamMember == \E i \in 1..Len(teamApprovers) :
                                 teamApprovers[i] \in Range(teamMemberships)
             next == IF isIndividualApprover \/ isTeamMember
                     THEN [satisfiedFiles |-> Append(acc.satisfiedFiles, filePath),
                           satisfiedAsIndividual |->
                               acc.satisfiedAsIndividual \/ isIndividualApprover,
                           satisfiedAsTeamMember |->
                               IF isTeamMember
                               THEN PushMemberTeams(teamApprovers, teamMemberships,
                                                    acc.satisfiedAsTeamMember)
                               ELSE acc.satisfiedAsTeamMember]
                     ELSE acc
         IN  SatisfactionLoop(Tail(entries), ftam, reviewer, teamMemberships, next)

\* the teams checkReviewerSatisfaction looks up for a reviewer, in order
MembershipLookups(ftam) == AllValues(ftam, <<>>)

checkReviewerSatisfaction(reviewer, fam, ftam, mem) ==
    LET allTeamApprovers == MembershipLookups(ftam)
        teamMemberships == MembershipLoop(allTeamApprovers, reviewer, mem, <<>>)
    IN  SatisfactionLoop(fam, ftam, reviewer, teamMemberships,
                         [satisfiedFiles |-> <<>>,
                          satisfiedAsIndividual |-> FALSE,
                          satisfiedAsTeamMember |-> <<>>])

----------------------------------------------------------------------------
(* getAllApprovedReviews and checkAllApprovalCriteriaMet *)

ReviewStates == {"APPROVED", "CHANGES_REQUESTED"}

Times == 1..MaxTime

ReviewRecords == [user : Users, state : ReviewStates, submitted_at : Times]

\* what pulls.listReviews answers: the history, or a failure
Listing(ok, data) == [ok |-> ok, data |-> data]

\* LatestLoop without the comparison of submission times: the last listed review is kept
RECURSIVE LatestLoop_LastListed(_, _)
LatestLoop_LastListed(data, latestReviewsByUser) ==
    IF data = <<>> THEN latestReviewsByUser
    ELSE LatestLoop_LastListed(Tail(data),
                               MapSet(latestReviewsByUser, Head(data).user, Head(data)))

\* LatestLoop replacing the kept review also when the submission times are equal
RECURSIVE LatestLoop_TieTakesLater(_, _)
LatestLoop_TieTakesLater(data, latestReviewsByUser) ==
    IF data = <<>> THEN latestReviewsByUser
    ELSE LET review == Head(data)
             userId == review.user
         IN  LatestLoop_TieTakesLater(Tail(data),
                 IF ~MapHas(latestReviewsByUser, userId)
                    \/ review.submitted_at >= MapGet(latestReviewsByUser, userId).submitted_at
                 THEN MapSet(latestReviewsByUser, userId, review)
                 ELSE latestReviewsByUser)

\* the loop that keeps one review per user in latestReviewsByUser
RECURSIVE LatestLoop(_, _)
LatestLoop(data, latestReviewsByUser) ==
    IF data = <<>> THEN latestReviewsByUser
    ELSE LET review == Head(data)
             userId == review.user
         IN  LatestLoop(Tail(data),
                 IF ~MapHas(latestReviewsByUser, userId)
                    \/ review.submitted_at > MapGet(latestReviewsByUser, userId).submitted_at
                 THEN MapSet(latestReviewsByUser, userId, review)
                 ELSE latestReviewsByUser)

\* Array.from(map.values()).filter(review => review.state === 'APPROVED')
ApprovedValues(m) == SelectSeq([i \in 1..Len(m) |-> m[i].val], LAMBDA r : r.state = "APPROVED")

\* getAllApprovedReviews keeping the latest review of the pull request, not of each user
getAllApprovedReviews_LatestOverall(listing) ==
    IF listing.ok /\ listing.data # <<>>
    THEN SelectSeq(<<listing.data[Len(listing.data)]>>, LAMBDA r : r.state = "APPROVED")
    ELSE <<>>

\* getAllApprovedReviews filtering for approved reviews before taking the latest per user
getAllApprovedReviews_FilterFirst(listing) ==
    IF listing.ok
    THEN ApprovedValues(LatestLoop(SelectSeq(listing.data, LAMBDA r : r.state = "APPROVED"),
                                   <<>>))
    ELSE <<>>

\* getAllApprovedReviews returning every approved record, not one per user
getAllApprovedReviews_EveryApproved(listing) ==
    IF listing.ok THEN SelectSeq(listing.data, LAMBDA r : r.state = "APPROVED") ELSE <<>>

\* getAllApprovedReviews failing open: a listing that fails counts as an approval by everyone
getAllApprovedReviews_FailOpen(listing) ==
    IF listing.ok THEN ApprovedValues(LatestLoop(listing.data, <<>>))
    ELSE <<[user |-> "alice", state |-> "APPROVED", submitted_at |-> 1],
           [user |-> "bob", state |-> "APPROVED", submitted_at |-> 1]>>

\* try { listReviews ... } catch { return [] }
getAllApprovedReviews(listing) ==
    IF listing.ok THEN ApprovedValues(LatestLoop(listing.data, <<>>)) ELSE <<>>

\* a loop over the approved reviews that records an entry only for a reviewer who
\* adds a file that was not yet satisfied
RECURSIVE ApprovalLoop_OnlyWhenNew(_, _, _, _, _)
ApprovalLoop_OnlyWhenNew(approvedReviews, fam, ftam, mem, acc) ==
    IF approvedReviews = <<>> THEN acc
    ELSE LET review == Head(approvedReviews)
             satisfaction == checkReviewerSatisfaction(review.user, fam, ftam, mem)
             isNew == \E f \in Range(satisfaction.satisfiedFiles) : f \notin Range(acc.satisfiedFiles)
             next == IF Len(satisfaction.satisfiedFiles) > 0
                     THEN [satisfiedFiles |->
                               AddAll(acc.satisfiedFiles, satisfaction.satisfiedFiles),
                           approvedIndividuals |->
                               IF satisfaction.satisfiedAsIndividual
                               THEN SetAdd(acc.approvedIndividuals, review.user)
                               ELSE acc.approvedIndividuals,
                           approvedTeams |->
                               AddAll(acc.approvedTeams, satisfaction.satisfiedAsTeamMember),
                           approverSummary |->
                               IF isNew
                               THEN Append(acc.approverSummary,
                                      [reviewer |-> review.user,
                                       satisfiedAsIndividual |-> satisfaction.satisfiedAsIndividual,
                                       satisfiedAsTeamMember |-> satisfaction.satisfiedAsTeamMember,
                                       satisfiedFiles |-> satisfaction.satisfiedFiles])
                               ELSE acc.approverSummary]
                     ELSE acc
         IN  ApprovalLoop_OnlyWhenNew(Tail(approvedReviews), fam, ftam, mem, next)

\* the loop over approvedReviews
RECURSIVE ApprovalLoop(_, _, _, _, _)
ApprovalLoop(approvedReviews, fam, ftam, mem, acc) ==
    IF approvedReviews = <<>> THEN acc
    ELSE LET review == Head(approvedReviews)
             satisfaction == checkReviewerSatisfaction(review.user, fam, ftam, mem)
             next == IF Len(satisfaction.satisfiedFiles) > 0
                     THEN [satisfiedFiles |->
                               AddAll(acc.satisfiedFiles, satisfaction.satisfiedFiles),
                           approvedIndividuals |->
                               IF satisfaction.satisfiedAsIndividual
                               THEN SetAdd(acc.approvedIndividuals, review.user)
                               ELSE acc.approvedIndividuals,
                           approvedTeams |->
                               AddAll(acc.approvedTeams, satisfaction.satisfiedAsTeamMember),
                           approverSummary |->
                               Append(acc.approverSummary,
                                      [reviewer |-> review.user,
                                       satisfiedAsIndividual |-> satisfaction.satisfiedAsIndividual,
                                       satisfiedAsTeamMember |-> satisfaction.satisfiedAsTeamMember,
                                       satisfiedFiles |-> satisfaction.satisfiedFiles])]
                     ELSE acc
         IN  ApprovalLoop(Tail(approvedReviews), fam, ftam, mem, next)

\* AllCriteriaMet without the test that something is required
AllCriteriaMet_NoGuard(requiredIndividuals, requiredTeams, approvedIndividuals, approvedTeams) ==
    /\ \A individual \in Range(requiredIndividuals) : individual \in Range(approvedIndividuals)
    /\ \A team \in Range(requiredTeams) : team \in Range(approvedTeams)

\* a final test that looks at the required teams only
AllCriteriaMet_TeamsOnly(requiredIndividuals, requiredTeams, approvedIndividuals, approvedTeams) ==
    /\ \A team \in Range(requiredTeams) : team \in Range(approvedTeams)
    /\ (Len(requiredIndividuals) > 0 \/ Len(requiredTeams) > 0)

\* the final test: every required individual and team approved, and something required
AllCriteriaMet(requiredIndividuals, requiredTeams, approvedIndividuals, approvedTeams) ==
    LET allIndividualsApproved ==
            \A individual \in Range(requiredIndividuals) :
                individual \in Range(approvedIndividuals)
        allTeamsApproved ==
            \A team \in Range(requiredTeams) : team \in Range(approvedTeams)
    IN  allIndividualsApproved /\ allTeamsApproved
        /\ (Len(requiredIndividuals) > 0 \/ Len(requiredTeams) > 0)

checkAllApprovalCriteriaMet(listing, fam, ftam, mem) ==
    LET approvedReviews == getAllApprovedReviews(listing)
        requiredIndividuals == AllValues(fam, <<>>)
        requiredTeams == AllValues(ftam, <<>>)
        done == ApprovalLoop(approvedReviews, fam, ftam, mem,
                             [satisfiedFiles |-> <<>>, approvedIndividuals |-> <<>>,
                              approvedTeams |-> <<>>, approverSummary |-> <<>>])
    IN  IF Len(approvedReviews) = 0
        THEN [allCriteriaMet |-> FALSE, satisfiedFiles |-> <<>>, approverSummary |-> <<>>]
        ELSE [allCriteriaMet |-> AllCriteriaMet(requiredIndividuals, requiredTeams,
                                                done.approvedIndividuals, done.approvedTeams),
              satisfiedFiles |-> done.satisfiedFiles,
              approverSummary |-> done.approverSummary]

----------------------------------------------------------------------------
(* State shared by the specifications *)

ApproverTeams == {ApproverTeam, OtherApproverTeam}

\* name.endsWith('-approvers')
EndsWithApprovers(name) == name \in ApproverTeams

NoRequest == [done |-> FALSE, policy |-> NullConfig, files |-> <<>>, maps |-> << <<>>, <<>> >>]

NoTeam == "none"   \* the event carries no requested_team

NoEvent == [name |-> "none", resolved |-> FALSE, team |-> NoTeam]

Idle == "idle"   \* no review_submitted handler stands at an await

NoEval == [done |-> FALSE, listing |-> Listing(FALSE, <<>>),
           out |-> [allCriteriaMet |-> FALSE, satisfiedFiles |-> <<>>, approverSummary |-> <<>>]]

NoSatisfaction ==
    [done |-> FALSE, reviewer |-> "",
     out |-> [satisfiedFiles |-> <<>>, satisfiedAsIndividual |-> FALSE,
              satisfiedAsTeamMember |-> <<>>]]

NoMembership == [p \in Users \X Teams |-> "error"]

OnlyConfig(policy) == [t \in ApproverTeams |-> IF t = ApproverTeam THEN policy ELSE NullConfig]

----------------------------------------------------------------------------
(* The webhook handlers *)

\* one call of the GitHub API: the operation, what it names, and whether it was answered
\* (ok) or threw
Api(op, arg) == [op |-> op, arg |-> arg, teams |-> <<>>, ok |-> TRUE]

\* the call with its outcome
Answered(call, ok) == [call EXCEPT !.ok = ok]

Comment(kind) == Api("issues.createComment", <<kind>>)

\* readApproversConfig: the parsed policy, or null when the file is missing or cannot be read
readApproversConfig(team) == IF team \in DOMAIN configs THEN configs[team] ELSE NullConfig

\* Array.prototype.sort on identifiers (no duplicates): order by code unit
NameOrder == <<"alice", "backend-team", "bob", "pdf-team">>

Sort(names) == SelectSeq(NameOrder, LAMBDA x : x \in Range(names))

\* generateApproversComment sorts the arrays of both maps in place
SortedInPlace(m) == [i \in 1..Len(m) |-> [key |-> m[i].key, val |-> Sort(m[i].val)]]

\* a report that lists the files whatever the map holds
generateApproversComment_AlwaysListing(fam, ftam) == Comment("report")

\* generateApproversComment: the report that is posted
generateApproversComment(fam, ftam) ==
    IF Len(fam) = 0 THEN Comment("report: no files found") ELSE Comment("report")

\* requestReviewsFromApprovers posting the confirmation before the call
requestReviewsFromApprovers_ConfirmFirst(fam, ftam, requestOk) ==
    LET allApprovers == AllValues(fam, <<>>)
        allTeamApprovers == AllValues(ftam, <<>>)
    IN  IF Len(allApprovers) > 0 \/ Len(allTeamApprovers) > 0
        THEN <<Comment("review requests sent"),
               [op |-> "pulls.requestReviewers", arg |-> allApprovers,
                teams |-> allTeamApprovers, ok |-> requestOk]>>
        ELSE <<>>

\* requestReviewsFromApprovers naming the approvers of the first file only
requestReviewsFromApprovers_FirstFile(fam, ftam, requestOk) ==
    LET allApprovers == IF fam = <<>> THEN <<>> ELSE fam[1].val
        allTeamApprovers == IF ftam = <<>> THEN <<>> ELSE ftam[1].val
    IN  IF Len(allApprovers) > 0 \/ Len(allTeamApprovers) > 0
        THEN <<[op |-> "pulls.requestReviewers", arg |-> allApprovers,
                teams |-> allTeamApprovers, ok |-> requestOk]>>
             \o (IF requestOk THEN <<Comment("review requests sent")>>
                 ELSE <<Comment("failed to request reviews")>>)
        ELSE <<>>

\* requestReviewsFromApprovers without the catch: a failed call ends it
requestReviewsFromApprovers_NoCatch(fam, ftam, requestOk) ==
    LET allApprovers == AllValues(fam, <<>>)
        allTeamApprovers == AllValues(ftam, <<>>)
    IN  IF Len(allApprovers) > 0 \/ Len(allTeamApprovers) > 0
        THEN <<[op |-> "pulls.requestReviewers", arg |-> allApprovers,
                teams |-> allTeamApprovers, ok |-> requestOk]>>
             \o (IF requestOk THEN <<Comment("review requests sent")>> ELSE <<>>)
        ELSE <<>>

\* requestReviewsFromApprovers without the test that somebody is to be requested
requestReviewsFromApprovers_Always(fam, ftam, requestOk) ==
    LET allApprovers == AllValues(fam, <<>>)
        allTeamApprovers == AllValues(ftam, <<>>)
    IN  <<[op |-> "pulls.requestReviewers", arg |-> allApprovers,
           teams |-> allTeamApprovers, ok |-> requestOk]>>
        \o (IF requestOk THEN <<Comment("review requests sent")>>
            ELSE <<Comment("failed to request reviews")>>)

\* requestReviewsFromApprovers: the API actions it issues
requestReviewsFromApprovers(fam, ftam, requestOk) ==
    LET allApprovers == AllValues(fam, <<>>)
        allTeamApprovers == AllValues(ftam, <<>>)
    IN  IF Len(allApprovers) > 0 \/ Len(allTeamApprovers) > 0
        THEN <<[op |-> "pulls.requestReviewers", arg |-> allApprovers,
                teams |-> allTeamApprovers, ok |-> requestOk]>>
             \o (IF requestOk THEN <<Comment("review requests sent")>>
                 ELSE <<Comment("failed to request reviews")>>)
        ELSE <<>>

\* a guard that takes every requested team
IsApproverRequest_AnyTeam(team) == team # NoTeam

\* requested_team && requested_team.name.endsWith('-approvers')
IsApproverRequest(team) == team # NoTeam /\ EndsWithApprovers(team)

\* a missing config that is passed over in silence
ConfigNotFound_Silent(team) ==
    [log |-> <<Api("repos.getContent", <<team>>)>>,
     resolved |-> FALSE, policy |-> NullConfig, maps |-> << <<>>, <<>> >>]

\* if (!approversConfig): the handler returns with the 'No approvers configuration found' comment
ConfigNotFound(team) ==
    [log |-> <<Api("repos.getContent", <<team>>), Comment("no configuration found")>>,
     resolved |-> FALSE, policy |-> NullConfig, maps |-> << <<>>, <<>> >>]

\* app.on("pull_request.review_requested"): what the handler does and resolves
ReviewRequestedHandlerOn(files, team, requestOk) ==
    IF IsApproverRequest(team)
    THEN LET approversConfig == readApproversConfig(team)
             maps == findApprovers(files, approversConfig)
             fam == SortedInPlace(maps[1])
             ftam == SortedInPlace(maps[2])
         IN  IF ~approversConfig.readable
             THEN ConfigNotFound(team)
             ELSE [log |-> <<Api("repos.getContent", <<team>>), Comment("finding reviewers"),
                             Api("pulls.listFiles", <<>>),
                             generateApproversComment(maps[1], maps[2])>>
                           \o requestReviewsFromApprovers(fam, ftam, requestOk),
                   resolved |-> TRUE, policy |-> approversConfig, maps |-> <<fam, ftam>>]
    ELSE [log |-> <<>>, resolved |-> FALSE, policy |-> NullConfig, maps |-> << <<>>, <<>> >>]

\* the handler on the pull request of the state
ReviewRequestedHandler(team, requestOk) == ReviewRequestedHandlerOn(prFiles, team, requestOk)

\* a search that returns the last requested team whose name ends in '-approvers'
RECURSIVE FindApproverTeam_Last(_)
FindApproverTeam_Last(teams) ==
    IF teams = <<>> THEN NoTeam
    ELSE IF FindApproverTeam_Last(Tail(teams)) # NoTeam THEN FindApproverTeam_Last(Tail(teams))
    ELSE IF EndsWithApprovers(Head(teams)) THEN Head(teams)
    ELSE NoTeam

\* requestedTeams.find(team => team.name.endsWith('-approvers'))
RECURSIVE FindApproverTeam(_)
FindApproverTeam(teams) ==
    IF teams = <<>> THEN NoTeam
    ELSE IF EndsWithApprovers(Head(teams)) THEN Head(teams)
    ELSE FindApproverTeam(Tail(teams))

\* the membership lookups checkReviewerSatisfaction issues for one reviewer
LookupLog(reviewer, ftam) ==
    LET teams == MembershipLookups(ftam)
    IN  [i \in 1..Len(teams) |->
            Answered(Api("teams.getMembershipForUserInOrg", <<reviewer, teams[i]>>),
                     membership[<<reviewer, teams[i]>>] # "error")]

RECURSIVE LookupLogs(_, _)
LookupLogs(approvedReviews, ftam) ==
    IF approvedReviews = <<>> THEN <<>>
    ELSE LookupLog(Head(approvedReviews).user, ftam) \o LookupLogs(Tail(approvedReviews), ftam)

\* approvePullRequest: the API actions it issues, and whether it succeeded
approvePullRequest(tokenSet, approveOk) ==
    IF ~tokenSet THEN [log |-> <<>>, success |-> FALSE]
    ELSE [log |-> <<Answered(Api("pulls.createReview", <<"APPROVE">>), approveOk)>>,
          success |-> approveOk]

NotEvaluated == NoEval

\* the webhook payload spells the state of a review in lower case, the listing in upper case
PayloadState(state) == IF state = "APPROVED" THEN "approved" ELSE "changes_requested"

\* a handler that kept the maps of the review_requested event instead of resolving again
ResolveAtSubmission_Retained(files, approversConfig) ==
    <<fileApproverMap, fileTeamApproverMap>>

\* the submitted handler resolves the files it has just listed against the policy it has just read
ResolveAtSubmission(files, approversConfig) == findApprovers(files, approversConfig)

\* a handler that goes on whatever the state of the review
IsApprovedReview_Any(review) == TRUE

\* review.state === 'approved'
IsApprovedReview(review) == PayloadState(review.state) = "approved"

\* a handler that goes on whatever the reviewer satisfies
NoContribution_Never(satisfaction) == FALSE

\* a handler that goes on only for a reviewer who is an individual owner
NoContribution_UnlessIndividual(satisfaction) == ~satisfaction.satisfiedAsIndividual

\* satisfaction.satisfiedFiles.length === 0
NoContribution(satisfaction) == Len(satisfaction.satisfiedFiles) = 0

\* a completion that approves whatever the evaluation returned
CompleteApproval_Unguarded(approvalStatus, approval) ==
    <<Comment("all required approvals received")>>
    \o approval.log
    \o (IF approval.success THEN <<>> ELSE <<Comment("automatic approval failed")>>)

\* a completion that says nothing when approvePullRequest returned false
CompleteApproval_SilentFailure(approvalStatus, approval) ==
    IF approvalStatus.allCriteriaMet
    THEN <<Comment("all required approvals received")>> \o approval.log
    ELSE <<>>

\* a completion that approves before it posts the final comment
CompleteApproval_ApproveFirst(approvalStatus, approval) ==
    IF approvalStatus.allCriteriaMet
    THEN approval.log
         \o <<Comment("all required approvals received")>>
         \o (IF approval.success THEN <<>> ELSE <<Comment("automatic approval failed")>>)
    ELSE <<>>

\* if (approvalStatus.allCriteriaMet): the final comment, then approvePullRequest, then the
\* failure comment when it returned false
CompleteApproval(approvalStatus, approval) ==
    IF approvalStatus.allCriteriaMet
    THEN <<Comment("all required approvals received")>>
         \o approval.log
         \o (IF approval.success THEN <<>> ELSE <<Comment("automatic approval failed")>>)
    ELSE <<>>

\* app.on("pull_request_review.submitted"): what the handler does, resolves and evaluates
ReviewSubmittedHandlerOn(files, review, teams, listing, tokenSet, approveOk) ==
    LET approverTeam == FindApproverTeam(teams)
        approversConfig == readApproversConfig(approverTeam)
        maps == ResolveAtSubmission(files, approversConfig)
        satisfaction == checkReviewerSatisfaction(review.user, maps[1], maps[2], membership)
        approvalStatus == checkAllApprovalCriteriaMet(listing, maps[1], maps[2], membership)
        approval == approvePullRequest(tokenSet, approveOk)
        idle == [log |-> <<>>, resolved |-> FALSE, maps |-> << <<>>, <<>> >>,
                 satisfaction |-> NoSatisfaction, eval |-> NotEvaluated]
    IN  IF ~IsApprovedReview(review) THEN idle
        ELSE IF approverTeam = NoTeam THEN idle
        ELSE IF ~approversConfig.readable
        THEN [idle EXCEPT !.log = <<Api("repos.getContent", <<approverTeam>>)>>]
        ELSE IF NoContribution(satisfaction)
        THEN [log |-> <<Api("repos.getContent", <<approverTeam>>), Api("pulls.listFiles", <<>>)>>
                      \o LookupLog(review.user, maps[2]),
              resolved |-> TRUE, maps |-> maps,
              satisfaction |-> [done |-> TRUE, reviewer |-> review.user, out |-> satisfaction],
              eval |-> NotEvaluated]
        ELSE [log |-> <<Api("repos.getContent", <<approverTeam>>), Api("pulls.listFiles", <<>>)>>
                      \o LookupLog(review.user, maps[2])
                      \o <<Comment("review approval received"),
                           Answered(Api("pulls.listReviews", <<>>), listing.ok)>>
                      \o LookupLogs(getAllApprovedReviews(listing), maps[2])
                      \o CompleteApproval(approvalStatus, approval),
              resolved |-> TRUE, maps |-> maps,
              satisfaction |-> [done |-> TRUE, reviewer |-> review.user, out |-> satisfaction],
              eval |-> [done |-> TRUE, listing |-> listing, out |-> approvalStatus]]

\* the handler on the pull request of the state
ReviewSubmittedHandler(review, teams, listing, tokenSet, approveOk) ==
    ReviewSubmittedHandlerOn(prFiles, review, teams, listing, tokenSet, approveOk)

----------------------------------------------------------------------------
(* SpecResolve: findApprovers applied to every policy and every change set *)

InitResolve ==
    /\ configs \in {OnlyConfig(policy) : policy \in PolicySet}
    /\ prFiles = <<>>
    /\ requestedTeams = <<ApproverTeam>>
    /\ reviews = <<>>
    /\ membership = NoMembership
    /\ fileApproverMap = <<>>
    /\ fileTeamApproverMap = <<>>
    /\ requestMaps = NoRequest
    /\ evalCur = NoEval
    /\ evalPrev = NoEval
    /\ apiLog = <<>>
    /\ lastEvent = NoEvent
    /\ reviewerCheck = NoSatisfaction
    /\ pc = Idle
    /\ events = 0

\* pulls.listFiles answers `files`; findApprovers resolves them against the policy
ResolveChangeSet(files) ==
    LET maps == findApprovers(files, configs[ApproverTeam])
    IN  /\ events = 0
        /\ events' = 1
        /\ prFiles' = files
        /\ fileApproverMap' = maps[1]
        /\ fileTeamApproverMap' = maps[2]
        /\ UNCHANGED <<configs, requestedTeams, reviews, membership, requestMaps,
                       evalCur, evalPrev, apiLog, lastEvent, reviewerCheck, pc>>

NextResolve == \E files \in FileLists : ResolveChangeSet(files)

SpecResolve == InitResolve /\ [][NextResolve]_vars

----------------------------------------------------------------------------
(* The policy read declaratively, for stating the properties of findApprovers *)

\* the identifiers an `owners` / `team-owners` value lists
Listed(field) ==
    IF field.kind = "array" THEN Range(field.val)
    ELSE IF field.kind = "string" THEN {field.val[1]}
    ELSE {}

\* the ordered rules whose pattern matches the file
MatchingRules(f, policy) ==
    {i \in 1..Len(policy.patterns) : minimatch(f, policy.patterns[i].pattern)}

MatchedOwners(f, policy) ==
    UNION {Listed(policy.patterns[i].owners) : i \in MatchingRules(f, policy)}

MatchedTeams(f, policy) ==
    UNION {Listed(policy.patterns[i].teamOwners) : i \in MatchingRules(f, policy)}

ThePolicy == configs[ApproverTeam]

Resolved(f) == MapHas(fileApproverMap, f) /\ MapHas(fileTeamApproverMap, f)

Individuals(f) == Range(MapGet(fileApproverMap, f))
TeamsOf(f) == Range(MapGet(fileTeamApproverMap, f))

\* C1: every file whose matching rules list at least one owner resolves to the union
\* of the owners of all matching rules and the union of their team-owners
C1_AdditiveUnion ==
    \A f \in Range(prFiles) :
        (MatchedOwners(f, ThePolicy) \cup MatchedTeams(f, ThePolicy) # {}) =>
            /\ Resolved(f)
            /\ Individuals(f) = MatchedOwners(f, ThePolicy)
            /\ TeamsOf(f) = MatchedTeams(f, ThePolicy)

\* a file matched by two rules with different owners, resolved to more than either rule lists
C1_Witness ==
    \E f \in Range(prFiles) :
        /\ Resolved(f)
        /\ Cardinality(MatchingRules(f, ThePolicy)) = 2
        /\ \A i \in MatchingRules(f, ThePolicy) :
               \/ Listed(ThePolicy.patterns[i].owners) # Individuals(f)
               \/ Listed(ThePolicy.patterns[i].teamOwners) # TeamsOf(f)
        /\ Individuals(f) = MatchedOwners(f, ThePolicy)
        /\ TeamsOf(f) = MatchedTeams(f, ThePolicy)

\* C7: the fallback is applied to a file only when no rule's pattern matches it: a file
\* matched by at least one rule resolves to the owners of its matching rules alone
C7_FallbackOnlyWhenNoRuleMatches ==
    \A f \in Range(prFiles) :
        (MatchingRules(f, ThePolicy) # {}) =>
            /\ Individuals(f) = MatchedOwners(f, ThePolicy)
            /\ TeamsOf(f) = MatchedTeams(f, ThePolicy)

\* C8: when the matching rules contribute an individual or a team, no identifier that
\* only the fallback lists is in the file's requirement
C8_NoMixing ==
    \A f \in Range(prFiles) :
        (MatchedOwners(f, ThePolicy) \cup MatchedTeams(f, ThePolicy) # {}) =>
            /\ (Individuals(f) \ MatchedOwners(f, ThePolicy))
                   \cap Listed(ThePolicy.fallback.owners) = {}
            /\ (TeamsOf(f) \ MatchedTeams(f, ThePolicy))
                   \cap Listed(ThePolicy.fallback.teamOwners) = {}

\* matching rules that give only teams, a fallback that lists individuals, and the
\* file's individual set left empty
C8_Witness ==
    \E f \in Range(prFiles) :
        /\ Resolved(f)
        /\ MatchedOwners(f, ThePolicy) = {}
        /\ MatchedTeams(f, ThePolicy) # {}
        /\ ThePolicy.fallback.present
        /\ Listed(ThePolicy.fallback.owners) # {}
        /\ Individuals(f) = {}
        /\ TeamsOf(f) = MatchedTeams(f, ThePolicy)

C10_NoRuleNoFallbackEmpty ==
    \A f \in Range(prFiles) :
        (MatchingRules(f, ThePolicy) = {} /\ ~ThePolicy.fallback.present) =>
            /\ Resolved(f)
            /\ MapGet(fileApproverMap, f) = <<>>
            /\ MapGet(fileTeamApproverMap, f) = <<>>

\* an unmatched file resolved to nothing next to a file that has owners, under a policy
\* with rules and no fallback
C10_Witness ==
    /\ ~ThePolicy.fallback.present
    /\ ThePolicy.patterns # <<>>
    /\ \E f, g \in Range(prFiles) :
           /\ MatchingRules(f, ThePolicy) = {}
           /\ Resolved(f)
           /\ MapGet(fileApproverMap, f) = <<>>
           /\ MapGet(fileTeamApproverMap, f) = <<>>
           /\ Resolved(g)
           /\ Individuals(g) # {}

----------------------------------------------------------------------------
(* SpecQuorum: the quorum evaluation over a growing review history *)

ScenarioA ==
    Policy(<<Rule("backend/**/*.pdf", Absent, Arr(<<"pdf-team">>)),
             Rule("backend/**/*", Arr(<<"alice">>), Arr(<<"backend-team">>))>>,
           NoFallback)

TwoOwners ==
    Policy(<<Rule("backend/**/*", Arr(<<"bob", "alice", "bob">>), Str("pdf-team"))>>,
           Fallback(Str("bob"), Arr(<<"backend-team">>)))

NoRules == Policy(<<>>, NoFallback)

OneFile == <<"backend/report.pdf">>
TwoFiles == <<"backend/src/app.js", "docs/api/index.md">>

\* the policies and change sets the requirement maps of SpecQuorum are resolved from
QuorumInputs ==
    {<<ScenarioA, OneFile>>, <<ScenarioA, TwoFiles>>, <<TwoOwners, TwoFiles>>, <<NoRules, OneFile>>}

MembershipSet == [Users \X Teams -> Outcomes]

InitQuorum ==
    /\ \E input \in QuorumInputs :
           /\ configs = OnlyConfig(input[1])
           /\ prFiles = input[2]
           /\ fileApproverMap = findApprovers(input[2], input[1])[1]
           /\ fileTeamApproverMap = findApprovers(input[2], input[1])[2]
    /\ membership \in MembershipSet
    /\ requestedTeams = <<ApproverTeam>>
    /\ reviews = <<>>
    /\ requestMaps = NoRequest
    /\ evalCur = NoEval
    /\ evalPrev = NoEval
    /\ apiLog = <<>>
    /\ lastEvent = NoEvent
    /\ reviewerCheck = NoSatisfaction
    /\ pc = Idle
    /\ events = 0

\* pulls.listReviews lists the reviews in chronological order
Chronological(data, r) ==
    IF data = <<>> THEN TRUE ELSE data[Len(data)].submitted_at <= r.submitted_at

\* the API actions one run of checkAllApprovalCriteriaMet issues: the listing, then the
\* lookups of checkReviewerSatisfaction for each approved review
EvaluationLog(ok, data) ==
    <<Answered(Api("pulls.listReviews", <<>>), ok)>>
    \o LookupLogs(getAllApprovedReviews(Listing(ok, IF ok THEN data ELSE <<>>)),
                  fileTeamApproverMap)

\* an evaluation that keeps its summary across calls and appends to it
Evaluation_Accumulating(ok, data) ==
    LET listing == Listing(ok, IF ok THEN data ELSE <<>>)
        out == checkAllApprovalCriteriaMet(listing, fileApproverMap, fileTeamApproverMap,
                                           membership)
    IN  [done |-> TRUE,
         listing |-> listing,
         out |-> [out EXCEPT !.approverSummary = evalCur.out.approverSummary \o @]]

\* one run of checkAllApprovalCriteriaMet: the listing succeeds and answers `data`, or fails
Evaluation(ok, data) ==
    LET listing == Listing(ok, IF ok THEN data ELSE <<>>)
    IN  [done |-> TRUE,
         listing |-> listing,
         out |-> checkAllApprovalCriteriaMet(listing, fileApproverMap, fileTeamApproverMap,
                                             membership)]

\* a review is submitted and the quorum is evaluated over the history that includes it
SubmitAndEvaluate(r, ok) ==
    /\ Len(reviews) < MaxReviews
    /\ Chronological(reviews, r)
    /\ reviews' = Append(reviews, r)
    /\ evalPrev' = evalCur
    /\ evalCur' = Evaluation(ok, reviews')
    /\ apiLog' = EvaluationLog(ok, reviews')
    /\ UNCHANGED <<configs, prFiles, requestedTeams, membership, fileApproverMap,
                   fileTeamApproverMap, requestMaps, lastEvent, reviewerCheck, events, pc>>

\* the quorum is evaluated once more over the same history
ReEvaluate(ok) ==
    /\ evalCur.done
    /\ evalPrev' = evalCur
    /\ evalCur' = Evaluation(ok, reviews)
    /\ apiLog' = EvaluationLog(ok, reviews)
    /\ UNCHANGED <<configs, prFiles, requestedTeams, reviews, membership, fileApproverMap,
                   fileTeamApproverMap, requestMaps, lastEvent, reviewerCheck, events, pc>>

NextQuorum ==
    \/ \E r \in ReviewRecords, ok \in BOOLEAN : SubmitAndEvaluate(r, ok)
    \/ \E ok \in BOOLEAN : ReEvaluate(ok)

SpecQuorum == InitQuorum /\ [][NextQuorum]_vars

----------------------------------------------------------------------------
(* The review history read declaratively, for stating the properties of the quorum *)

\* the live record of a reviewer: the latest by submission time, the first listed of
\* several records with that time
IsLive(data, i) ==
    \A j \in 1..Len(data) :
        (data[j].user = data[i].user /\ j # i) =>
            \/ data[j].submitted_at < data[i].submitted_at
            \/ (data[j].submitted_at = data[i].submitted_at /\ i < j)

LiveApproved(data) ==
    {data[i].user : i \in {k \in 1..Len(data) : IsLive(data, k) /\ data[k].state = "APPROVED"}}

HasRecord(data, u) == \E i \in 1..Len(data) : data[i].user = u

WithoutUser(data, u) == SelectSeq(data, LAMBDA r : r.user # u)

RequiredIndividuals == UNION {Range(fileApproverMap[i].val) : i \in 1..Len(fileApproverMap)}

RequiredTeams == UNION {Range(fileTeamApproverMap[i].val) : i \in 1..Len(fileTeamApproverMap)}

ActiveMember(u, t) == membership[<<u, t>>] = "active"

\* the quorum condition over a review history
Quorum(data) ==
    /\ \A u \in RequiredIndividuals : u \in LiveApproved(data)
    /\ \A t \in RequiredTeams : \E u \in LiveApproved(data) : ActiveMember(u, t)
    /\ RequiredIndividuals \cup RequiredTeams # {}

\* C2: an evaluation over the listed review records returns allCriteriaMet = true exactly
\* when every required individual has an approved live record, every required team has an
\* active member with an approved live record, and something is required
C2_MetIffQuorum ==
    (evalCur.done /\ evalCur.listing.ok) =>
        (evalCur.out.allCriteriaMet <=> Quorum(evalCur.listing.data))

\* met = true with an individual and a team required, the team covered by a reviewer who
\* is no required individual
C2_Witness ==
    /\ evalCur.done /\ evalCur.listing.ok
    /\ evalCur.out.allCriteriaMet
    /\ RequiredIndividuals # {}
    /\ RequiredTeams # {}
    /\ \E u \in LiveApproved(evalCur.listing.data) : u \notin RequiredIndividuals
    /\ evalPrev.done /\ evalPrev.listing.ok /\ ~evalPrev.out.allCriteriaMet

\* C3: a reviewer whose live record is not approved contributes nothing: the evaluation
\* has no summary entry for the reviewer and returns what it returns for the history
\* without that reviewer's records
C3_LatestRecordDecides ==
    (evalCur.done /\ evalCur.listing.ok) =>
        \A u \in Users :
            (HasRecord(evalCur.listing.data, u) /\ u \notin LiveApproved(evalCur.listing.data)) =>
                /\ \A k \in 1..Len(evalCur.out.approverSummary) :
                       evalCur.out.approverSummary[k].reviewer # u
                /\ evalCur.out = checkAllApprovalCriteriaMet(
                                     Listing(TRUE, WithoutUser(evalCur.listing.data, u)),
                                     fileApproverMap, fileTeamApproverMap, membership)

\* a required individual approved and then requested changes: the first evaluation met
\* the quorum, the second does not
C3_Witness ==
    /\ evalCur.done /\ evalCur.listing.ok
    /\ evalPrev.done /\ evalPrev.listing.ok
    /\ evalPrev.out.allCriteriaMet
    /\ ~evalCur.out.allCriteriaMet
    /\ \E u \in RequiredIndividuals :
           /\ u \in LiveApproved(evalPrev.listing.data)
           /\ u \notin LiveApproved(evalCur.listing.data)
           /\ \E i \in 1..Len(evalCur.listing.data) :
                  /\ evalCur.listing.data[i].user = u
                  /\ evalCur.listing.data[i].state = "APPROVED"

\* the history listed by the last evaluation extends the one listed by the evaluation before
Extends == IsPrefix(evalPrev.listing.data, evalCur.listing.data)

BothListed == evalPrev.done /\ evalPrev.listing.ok /\ evalCur.done /\ evalCur.listing.ok

\* C4, as claimed: after an evaluation that returned met = true for the listed records R,
\* an evaluation that lists R or a superset of R returns met = true
C4_MetForEverySuperset ==
    (BothListed /\ Extends /\ evalPrev.out.allCriteriaMet) => evalCur.out.allCriteriaMet

\* C4, amended: ... provided every reviewer whose live record is approved in R still has
\* an approved live record in the superset
C4_MetWhileApprovalsStand ==
    (/\ BothListed /\ Extends
     /\ evalPrev.out.allCriteriaMet
     /\ LiveApproved(evalPrev.listing.data) \subseteq LiveApproved(evalCur.listing.data)) =>
        evalCur.out.allCriteriaMet

\* met = true twice, the second time over a history with one more record
C4_Witness ==
    /\ BothListed /\ Extends
    /\ evalPrev.out.allCriteriaMet
    /\ evalCur.out.allCriteriaMet
    /\ Len(evalCur.listing.data) > Len(evalPrev.listing.data)

\* the last evaluation listed one more record than the one before: an approved record
\* of a reviewer who had no approved live record
OneMoreApproval ==
    /\ BothListed
    /\ Len(evalCur.listing.data) = Len(evalPrev.listing.data) + 1
    /\ Extends
    /\ LET r == evalCur.listing.data[Len(evalCur.listing.data)]
       IN  r.state = "APPROVED" /\ r.user \notin LiveApproved(evalPrev.listing.data)

\* C5: one more approved record, of a reviewer not live-approved before, never turns
\* met from true to false
C5_Monotone ==
    (OneMoreApproval /\ evalPrev.out.allCriteriaMet) => evalCur.out.allCriteriaMet

\* the added approval leaves met = true in one case and turns it from false to true in
\* the other; here: it completes the quorum
C5_Witness ==
    /\ OneMoreApproval
    /\ ~evalPrev.out.allCriteriaMet
    /\ evalCur.out.allCriteriaMet
    /\ evalPrev.listing.data # <<>>

\* the added approval, of a reviewer nobody requires, leaves met = true
C5_WitnessStays ==
    /\ OneMoreApproval
    /\ evalPrev.out.allCriteriaMet
    /\ evalCur.out.allCriteriaMet

----------------------------------------------------------------------------
(* Spec: the handlers against a repository and a pull request that change *)

HandlerConfigs == {ScenarioA, TwoOwners, NoRules, NullConfig}

HandlerChangeSets == {<<>>, OneFile, TwoFiles}

BobOnBackend ==
    [p \in Users \X Teams |->
        IF p = <<"bob", "backend-team">> THEN "active"
        ELSE IF p[1] = "bob" THEN "pending" ELSE "error"]

EveryoneActive == [p \in Users \X Teams |-> "active"]

AliceOnPdf ==
    [p \in Users \X Teams |->
        IF p = <<"alice", "pdf-team">> THEN "active"
        ELSE IF p[1] = "alice" THEN "pending" ELSE "error"]

HandlerMemberships == {BobOnBackend, EveryoneActive, AliceOnPdf}

\* the config files on the base branch when the pull request is opened
InitialConfigs ==
    [team \in ApproverTeams |-> IF team = ApproverTeam THEN ScenarioA ELSE TwoOwners]

Init ==
    /\ configs = InitialConfigs
    /\ prFiles \in HandlerChangeSets
    /\ membership \in HandlerMemberships
    /\ requestedTeams = <<>>
    /\ reviews = <<>>
    /\ fileApproverMap = <<>>
    /\ fileTeamApproverMap = <<>>
    /\ requestMaps = NoRequest
    /\ evalCur = NoEval
    /\ evalPrev = NoEval
    /\ apiLog = <<>>
    /\ lastEvent = NoEvent
    /\ reviewerCheck = NoSatisfaction
    /\ pc = Idle
    /\ events = 0

Step == events < MaxEvents /\ events' = events + 1

\* a commit on the base branch changes the config file of a team
EditConfig(team, config) ==
    /\ Step
    /\ config # configs[team]
    /\ configs' = [configs EXCEPT ![team] = config]
    /\ UNCHANGED <<prFiles, requestedTeams, reviews, membership, fileApproverMap,
                   fileTeamApproverMap, requestMaps, evalCur, evalPrev, apiLog,
                   lastEvent, reviewerCheck, pc>>

\* a push changes the files of the pull request
PushCommit(files) ==
    /\ Step
    /\ files # prFiles
    /\ prFiles' = files
    /\ UNCHANGED <<configs, requestedTeams, reviews, membership, fileApproverMap,
                   fileTeamApproverMap, requestMaps, evalCur, evalPrev, apiLog,
                   lastEvent, reviewerCheck, pc>>

\* requested_teams after a team was requested; GitHub decides the place of the new team
WithTeam(teams, team, first) ==
    IF team = NoTeam \/ team \in Range(teams) THEN teams
    ELSE IF first THEN <<team>> \o teams ELSE Append(teams, team)

\* a reviewer or a team is requested; the review_requested handler runs
ReviewRequested(team, first, requestOk) ==
    LET h == ReviewRequestedHandler(team, requestOk)
    IN  /\ Step
        \* a place is chosen only for a new team joining a list that is not empty
        /\ first => (team # NoTeam /\ team \notin Range(requestedTeams) /\ requestedTeams # <<>>)
        /\ requestedTeams' = WithTeam(requestedTeams, team, first)
        /\ apiLog' = h.log
        /\ lastEvent' = [name |-> "review_requested", resolved |-> h.resolved, team |-> team]
        /\ IF h.resolved
           THEN /\ fileApproverMap' = h.maps[1]
                /\ fileTeamApproverMap' = h.maps[2]
                /\ requestMaps' = [done |-> TRUE, policy |-> h.policy, files |-> prFiles,
                                   maps |-> h.maps]
           ELSE UNCHANGED <<fileApproverMap, fileTeamApproverMap, requestMaps>>
        /\ UNCHANGED <<configs, prFiles, reviews, membership, evalCur, evalPrev, reviewerCheck, pc>>

\* a review is submitted; the review_submitted handler runs
ReviewSubmitted(review, listOk, tokenSet, approveOk) ==
    LET listing == Listing(listOk, IF listOk THEN Append(reviews, review) ELSE <<>>)
        h == ReviewSubmittedHandler(review, requestedTeams, listing, tokenSet, approveOk)
    IN  /\ Step
        /\ Len(reviews) < MaxReviews
        /\ review.submitted_at = Len(reviews) + 1   \* stamped by the server, one after the other
        /\ reviews' = Append(reviews, review)
        /\ apiLog' = h.log
        /\ lastEvent' = [name |-> "review_submitted", resolved |-> h.resolved,
                         team |-> FindApproverTeam(requestedTeams)]
        /\ IF h.resolved
           THEN /\ fileApproverMap' = h.maps[1]
                /\ fileTeamApproverMap' = h.maps[2]
           ELSE UNCHANGED <<fileApproverMap, fileTeamApproverMap>>
        /\ IF h.satisfaction.done
           THEN reviewerCheck' = h.satisfaction
           ELSE UNCHANGED reviewerCheck
        /\ IF h.eval.done
           THEN evalPrev' = evalCur /\ evalCur' = h.eval
           ELSE UNCHANGED <<evalCur, evalPrev>>
        /\ UNCHANGED <<configs, prFiles, requestedTeams, membership, requestMaps, pc>>

\* <<tokenSet, approveOk>>: no GITHUB_TOKEN, createReview rejected, createReview accepted
ApprovalOutcomes == {<<FALSE, FALSE>>, <<TRUE, FALSE>>, <<TRUE, TRUE>>}

Next ==
    \/ \E team \in ApproverTeams, config \in HandlerConfigs : EditConfig(team, config)
    \/ \E files \in HandlerChangeSets : PushCommit(files)
    \/ \E team \in TeamNames \cup {NoTeam}, first \in BOOLEAN, requestOk \in BOOLEAN :
           ReviewRequested(team, first, requestOk)
    \/ \E review \in ReviewRecords, listOk \in BOOLEAN, approval \in ApprovalOutcomes :
           ReviewSubmitted(review, listOk, approval[1], approval[2])

Spec == Init /\ [][Next]_vars

----------------------------------------------------------------------------
(* The requirement map of a review_submitted event *)

\* the first requested team whose name ends in '-approvers'
FirstApproverTeam(teams) ==
    IF \E i \in 1..Len(teams) : EndsWithApprovers(teams[i])
    THEN teams[CHOOSE i \in 1..Len(teams) :
                 /\ EndsWithApprovers(teams[i])
                 /\ \A j \in 1..(i - 1) : ~EndsWithApprovers(teams[j])]
    ELSE NoTeam

\* the individuals and teams a policy requires for a file
Requirement(f, policy) ==
    IF MatchedOwners(f, policy) \cup MatchedTeams(f, policy) # {}
    THEN <<MatchedOwners(f, policy), MatchedTeams(f, policy)>>
    ELSE IF policy.fallback.present
    THEN <<Listed(policy.fallback.owners), Listed(policy.fallback.teamOwners)>>
    ELSE <<{}, {}>>

\* the two maps hold, for exactly the files listed, what the policy requires
MapsOf(fam, ftam, files, policy) ==
    /\ MapKeys(fam) = files
    /\ MapKeys(ftam) = files
    /\ \A f \in Range(files) :
           <<Range(MapGet(fam, f)), Range(MapGet(ftam, f))>> = Requirement(f, policy)

\* the same files with the same required individuals and teams
SameMaps(m, n) ==
    /\ MapKeys(m[1]) = MapKeys(n[1])
    /\ MapKeys(m[2]) = MapKeys(n[2])
    /\ \A f \in Range(MapKeys(m[1])) : Range(MapGet(m[1], f)) = Range(MapGet(n[1], f))
    /\ \A f \in Range(MapKeys(m[2])) : Range(MapGet(m[2], f)) = Range(MapGet(n[2], f))

\* the last event was a review_submitted event whose handler resolved a requirement map,
\* after a review_requested event whose handler resolved one
SubmittedAfterRequested ==
    /\ lastEvent.name = "review_submitted"
    /\ lastEvent.resolved
    /\ requestMaps.done

----------------------------------------------------------------------------
(* SpecSatisfaction: checkReviewerSatisfaction applied to requirement maps, reviewers *)
(* and membership answers                                                             *)

BackendFiles == <<"backend/report.pdf", "backend/src/app.js">>

\* the policies and change sets the requirement maps of SpecSatisfaction are resolved from
SatisfactionInputs == QuorumInputs \cup {<<ScenarioA, BackendFiles>>}

InitSatisfaction ==
    /\ \E input \in SatisfactionInputs :
           /\ configs = OnlyConfig(input[1])
           /\ prFiles = input[2]
           /\ fileApproverMap = findApprovers(input[2], input[1])[1]
           /\ fileTeamApproverMap = findApprovers(input[2], input[1])[2]
    /\ membership \in MembershipSet
    /\ requestedTeams = <<ApproverTeam>>
    /\ reviews = <<>>
    /\ requestMaps = NoRequest
    /\ evalCur = NoEval
    /\ evalPrev = NoEval
    /\ apiLog = <<>>
    /\ lastEvent = NoEvent
    /\ reviewerCheck = NoSatisfaction
    /\ pc = Idle
    /\ events = 0

\* one call of checkReviewerSatisfaction: its result and the lookups it issued
CheckReviewer(reviewer) ==
    /\ reviewerCheck' =
           [done |-> TRUE, reviewer |-> reviewer,
            out |-> checkReviewerSatisfaction(reviewer, fileApproverMap, fileTeamApproverMap,
                                              membership)]
    /\ apiLog' = LookupLog(reviewer, fileTeamApproverMap)
    /\ UNCHANGED <<configs, prFiles, requestedTeams, reviews, membership, fileApproverMap,
                   fileTeamApproverMap, requestMaps, evalCur, evalPrev, lastEvent, events, pc>>

NextSatisfaction == \E reviewer \in Users : CheckReviewer(reviewer)

SpecSatisfaction == InitSatisfaction /\ [][NextSatisfaction]_vars

----------------------------------------------------------------------------
(* The result of checkReviewerSatisfaction, read from the maps and the memberships *)

\* the reviewer satisfies the file: listed for it, or an active member of one of its teams
Satisfies(u, f) ==
    \/ u \in Individuals(f)
    \/ \E t \in TeamsOf(f) : ActiveMember(u, t)

\* the number of places of a sequence that hold x
Occurrences(q, x) == Cardinality({i \in 1..Len(q) : q[i] = x})

\* C11: satisfiedFiles holds exactly the files of the requirement map that list the
\* reviewer as a required individual or have a required team the reviewer is an active
\* member of, each of them once and no other file
C11_SatisfiedFilesExact ==
    reviewerCheck.done =>
        LET u == reviewerCheck.reviewer
            out == reviewerCheck.out
        IN  /\ Range(out.satisfiedFiles) = {f \in Range(MapKeys(fileApproverMap)) : Satisfies(u, f)}
            /\ \A f \in Range(out.satisfiedFiles) : Occurrences(out.satisfiedFiles, f) = 1

\* a reviewer checked against two files: one satisfied through a team only, one not
\* satisfied although a lookup of one of its teams answered with a state that is not active
C11_Witness ==
    /\ reviewerCheck.done
    /\ Len(fileApproverMap) = 2
    /\ Len(reviewerCheck.out.satisfiedFiles) = 1
    /\ \E f \in Range(reviewerCheck.out.satisfiedFiles) :
           reviewerCheck.reviewer \notin Individuals(f)
    /\ \E f \in Range(MapKeys(fileApproverMap)) :
           /\ f \notin Range(reviewerCheck.out.satisfiedFiles)
           /\ \E t \in TeamsOf(f) : membership[<<reviewerCheck.reviewer, t>>] = "pending"

\* C12: satisfiedAsIndividual is true exactly when some file lists the reviewer as a
\* required individual; satisfiedAsTeamMember holds exactly the required teams the
\* reviewer is an active member of, each once
C12_FlagsExact ==
    reviewerCheck.done =>
        LET u == reviewerCheck.reviewer
            out == reviewerCheck.out
        IN  /\ out.satisfiedAsIndividual <=> (u \in RequiredIndividuals)
            /\ Range(out.satisfiedAsTeamMember) = {t \in RequiredTeams : ActiveMember(u, t)}
            /\ \A t \in Range(out.satisfiedAsTeamMember) :
                   Occurrences(out.satisfiedAsTeamMember, t) = 1

\* one result in which a file is satisfied as an individual and not through a team,
\* another file through a team and not as an individual
C12_Witness ==
    /\ reviewerCheck.done
    /\ reviewerCheck.out.satisfiedAsIndividual
    /\ reviewerCheck.out.satisfiedAsTeamMember # <<>>
    /\ \E f, g \in Range(reviewerCheck.out.satisfiedFiles) :
           /\ reviewerCheck.reviewer \in Individuals(f)
           /\ \A t \in TeamsOf(f) : ~ActiveMember(reviewerCheck.reviewer, t)
           /\ reviewerCheck.reviewer \notin Individuals(g)
           /\ \E t \in TeamsOf(g) : ActiveMember(reviewerCheck.reviewer, t)

\* a team required by two files, the reviewer an active member of it
C12_WitnessSharedTeam ==
    /\ reviewerCheck.done
    /\ \E f, g \in Range(reviewerCheck.out.satisfiedFiles) :
           /\ f # g
           /\ \E t \in TeamsOf(f) \cap TeamsOf(g) : ActiveMember(reviewerCheck.reviewer, t)

\* the membership answers with every lookup that throws replaced by a state that is not active
ErrorsAsInactive(mem) ==
    [p \in DOMAIN mem |-> IF mem[p] = "error" THEN "pending" ELSE mem[p]]

\* C13: a lookup that throws or answers a state other than 'active' counts as 'not a
\* member' and nothing more: every required team is still looked up, once; the result is
\* the result that the same lookups give when none of them throws; the teams with an
\* active answer are credited and the others are not
C13_LookupFailureIsNotMember ==
    reviewerCheck.done =>
        LET u == reviewerCheck.reviewer
            out == reviewerCheck.out
        IN  /\ {apiLog[i].arg : i \in 1..Len(apiLog)} = {<<u, t>> : t \in RequiredTeams}
            /\ Len(apiLog) = Cardinality(RequiredTeams)
            /\ out = checkReviewerSatisfaction(u, fileApproverMap, fileTeamApproverMap,
                                               ErrorsAsInactive(membership))
            /\ \A t \in RequiredTeams :
                   (t \in Range(out.satisfiedAsTeamMember)) <=> (membership[<<u, t>>] = "active")

\* the first lookup throws, a later one answers 'active' and its team is credited
C13_Witness ==
    /\ reviewerCheck.done
    /\ Len(apiLog) = 2
    /\ membership[apiLog[1].arg] = "error"
    /\ membership[apiLog[2].arg] = "active"
    /\ apiLog[2].arg[2] \in Range(reviewerCheck.out.satisfiedAsTeamMember)
    /\ reviewerCheck.out.satisfiedFiles # <<>>

----------------------------------------------------------------------------
(* The quorum evaluation: guards, coverage and the contribution summary *)

NothingRequired == RequiredIndividuals \cup RequiredTeams = {}

\* C14: when no file requires an individual or a team, every evaluation returns
\* allCriteriaMet = false, whatever the review records
C14_NothingRequiredNeverMet ==
    (evalCur.done /\ NothingRequired) => ~evalCur.out.allCriteriaMet

\* an evaluation over a file that requires nobody, with an approved live record listed
C14_Witness ==
    /\ evalCur.done /\ evalCur.listing.ok
    /\ fileApproverMap # <<>>
    /\ NothingRequired
    /\ LiveApproved(evalCur.listing.data) # {}
    /\ ~evalCur.out.allCriteriaMet

\* the handler of review_submitted issues no approving review when nothing is required
C14_NoApprovalIssued ==
    (lastEvent.name = "review_submitted" /\ lastEvent.resolved /\ NothingRequired) =>
        \A i \in 1..Len(apiLog) : apiLog[i].op # "pulls.createReview"

\* the files that the evaluation returned as satisfied
CoveredFiles == Range(evalCur.out.satisfiedFiles)

\* C15: when a required individual has no approved live record, allCriteriaMet is false,
\* also when the approved reviewers cover files through their teams
C15_CoverageIsNotQuorum ==
    (evalCur.done /\ evalCur.listing.ok) =>
        ((\E u \in RequiredIndividuals : u \notin LiveApproved(evalCur.listing.data)) =>
             ~evalCur.out.allCriteriaMet)

\* every file is covered, every required team has an active member with an approved live
\* record, and a required individual has none: not met
C15_Witness ==
    /\ evalCur.done /\ evalCur.listing.ok
    /\ fileApproverMap # <<>>
    /\ CoveredFiles = Range(MapKeys(fileApproverMap))
    /\ RequiredTeams # {}
    /\ \A t \in RequiredTeams :
           \E u \in LiveApproved(evalCur.listing.data) : ActiveMember(u, t)
    /\ \E u \in RequiredIndividuals : u \notin LiveApproved(evalCur.listing.data)
    /\ ~evalCur.out.allCriteriaMet

Summary == evalCur.out.approverSummary

\* the reviewers the summary has an entry for
SummaryReviewers == {Summary[k].reviewer : k \in 1..Len(Summary)}

\* the reviewer satisfies at least one file of the requirement map
SatisfiesSomeFile(u) == \E f \in Range(MapKeys(fileApproverMap)) : Satisfies(u, f)

\* C16 as stated: the summary has an entry for every reviewer whose live record is approved
C16_EntryForEveryLiveApproved ==
    (evalCur.done /\ evalCur.listing.ok) =>
        \A u \in LiveApproved(evalCur.listing.data) : u \in SummaryReviewers

\* C16: the summary has one entry for every reviewer whose live record is approved and
\* who satisfies at least one file, whether or not that adds a file, an individual or a
\* team to what the reviewers before gave; it has no entry for any other reviewer; an
\* entry holds the files the reviewer satisfies
C16_EntryForEverySatisfyingReviewer ==
    (evalCur.done /\ evalCur.listing.ok) =>
        /\ SummaryReviewers = {u \in LiveApproved(evalCur.listing.data) : SatisfiesSomeFile(u)}
        /\ \A k, l \in 1..Len(Summary) : Summary[k].reviewer = Summary[l].reviewer => k = l
        /\ \A k \in 1..Len(Summary) :
               Range(Summary[k].satisfiedFiles) =
                   {f \in Range(MapKeys(fileApproverMap)) : Satisfies(Summary[k].reviewer, f)}

\* two entries, the second of a reviewer who adds no file, no individual and no team to
\* the first
C16_Witness ==
    /\ evalCur.done /\ evalCur.listing.ok
    /\ Len(Summary) = 2
    /\ Range(Summary[2].satisfiedFiles) \subseteq Range(Summary[1].satisfiedFiles)
    /\ ~Summary[2].satisfiedAsIndividual
    /\ Range(Summary[2].satisfiedAsTeamMember) \subseteq Range(Summary[1].satisfiedAsTeamMember)

Lookups ==
    LET calls == SelectSeq(apiLog, LAMBDA a : a.op = "teams.getMembershipForUserInOrg")
    IN  [i \in 1..Len(calls) |-> calls[i].arg]

\* C18: one evaluation looks up no <<reviewer, team>> pair twice: it looks up, once
\* each, the pairs of a reviewer with an approved live record and a required team
C18_LookupAtMostOnce ==
    evalCur.done =>
        /\ \A pair \in Range(Lookups) : Occurrences(Lookups, pair) = 1
        /\ Range(Lookups) =
               IF evalCur.listing.ok
               THEN LiveApproved(evalCur.listing.data) \X RequiredTeams
               ELSE {}

\* one evaluation over two approved records of the same reviewer and two required teams
C18_Witness ==
    /\ evalCur.done /\ evalCur.listing.ok
    /\ Len(evalCur.listing.data) = 2
    /\ evalCur.listing.data[1].user = evalCur.listing.data[2].user
    /\ evalCur.listing.data[1].state = "APPROVED"
    /\ evalCur.listing.data[2].state = "APPROVED"
    /\ Cardinality(RequiredTeams) = 2
    /\ Len(Lookups) = 2

\* one evaluation over the approved records of two reviewers and two required teams
C18_WitnessTwoReviewers ==
    /\ evalCur.done /\ evalCur.listing.ok
    /\ Cardinality(LiveApproved(evalCur.listing.data)) = 2
    /\ Cardinality(RequiredTeams) = 2
    /\ Len(Lookups) = 4

----------------------------------------------------------------------------
(* The review_requested handler *)

\* a step of the review_requested handler: it leaves the repository, the change set and
\* the reviews as they are
RequestStep ==
    /\ events' = events + 1
    /\ lastEvent'.name = "review_requested"
    /\ configs' = configs /\ prFiles' = prFiles /\ reviews' = reviews

\* the handler left the maps it keeps as they were
NothingResolved ==
    /\ fileApproverMap' = fileApproverMap
    /\ fileTeamApproverMap' = fileTeamApproverMap
    /\ requestMaps' = requestMaps

Calls(log, op) == SelectSeq(log, LAMBDA a : a.op = op)

\* C19: when the config of the requested '-approvers' team cannot be read, the handler
\* posts one comment, the 'No approvers configuration found' comment, and does nothing
\* else after the attempt to read: no file listing, no report, no review request
C19_ConfigNotFoundOneComment ==
    [][(RequestStep /\ lastEvent'.team \in ApproverTeams
        /\ ~configs[lastEvent'.team].readable) =>
          /\ Calls(apiLog', "issues.createComment") = <<Comment("no configuration found")>>
          /\ apiLog' = <<Api("repos.getContent", <<lastEvent'.team>>),
                         Comment("no configuration found")>>
          /\ NothingResolved
      ]_vars

\* the handler ran for a '-approvers' team whose config cannot be read, on a pull request
\* that has files
C19_Witness ==
    /\ lastEvent.name = "review_requested"
    /\ lastEvent.team \in ApproverTeams
    /\ ~configs[lastEvent.team].readable
    /\ prFiles # <<>>
    /\ apiLog = <<Api("repos.getContent", <<lastEvent.team>>), Comment("no configuration found")>>

\* C20: a review_requested event without a requested team, or for a team whose name does
\* not end in '-approvers', causes no API action
C20_OtherTeamNoAction ==
    [][(RequestStep /\ lastEvent'.team \notin ApproverTeams) =>
          (apiLog' = <<>> /\ NothingResolved)
      ]_vars

\* the handler ran for a team whose name does not end in '-approvers', after a handler
\* that had issued API actions
C20_Witness ==
    /\ lastEvent.name = "review_requested"
    /\ lastEvent.team = PlainTeam
    /\ PlainTeam \in Range(requestedTeams)
    /\ requestMaps.done
    /\ apiLog = <<>>

\* the last event was a review_requested event whose handler found the policy: apiLog
\* holds its actions and requestMaps what it resolved, and from what
RequestResolved == lastEvent.name = "review_requested" /\ lastEvent.resolved

\* what the policy read by that handler requires over the files it listed
RequestedIndividuals ==
    UNION {Requirement(f, requestMaps.policy)[1] : f \in Range(requestMaps.files)}

RequestedTeams ==
    UNION {Requirement(f, requestMaps.policy)[2] : f \in Range(requestMaps.files)}

ReportComments == {Comment("report"), Comment("report: no files found")}

\* the places of the log that hold a call of the operation
Places(op) == {i \in 1..Len(apiLog) : apiLog[i].op = op}

\* C21: with the policy found, the handler posts the 'Finding appropriate reviewers'
\* comment, lists and resolves the files, posts the report, calls requestReviewers when
\* somebody is required, and posts the confirmation only after that call succeeded
C21_RequestOrder ==
    RequestResolved =>
        /\ Len(apiLog) >= 4
        /\ apiLog[1] = Api("repos.getContent", <<lastEvent.team>>)
        /\ apiLog[2] = Comment("finding reviewers")
        /\ apiLog[3] = Api("pulls.listFiles", <<>>)
        /\ apiLog[4] \in ReportComments
        /\ Places("pulls.requestReviewers") \subseteq {5}
        /\ (RequestedIndividuals \cup RequestedTeams # {}) => Places("pulls.requestReviewers") = {5}
        /\ \A i \in 1..Len(apiLog) :
               apiLog[i] = Comment("review requests sent") =>
                   (i = 6 /\ apiLog[5].op = "pulls.requestReviewers" /\ apiLog[5].ok)

\* the five actions in order, the call answered and the confirmation posted last
C21_Witness ==
    /\ RequestResolved
    /\ Len(apiLog) = 6
    /\ apiLog[4] = Comment("report")
    /\ apiLog[5].op = "pulls.requestReviewers" /\ apiLog[5].ok
    /\ apiLog[6] = Comment("review requests sent")

\* C22: the review request names as reviewers the individuals required by some listed
\* file and as team_reviewers the teams required by some listed file, each once
C22_RequestNamesUnion ==
    RequestResolved =>
        \A i \in Places("pulls.requestReviewers") :
            /\ Range(apiLog[i].arg) = RequestedIndividuals
            /\ Range(apiLog[i].teams) = RequestedTeams
            /\ \A x \in Range(apiLog[i].arg) : Occurrences(apiLog[i].arg, x) = 1
            /\ \A x \in Range(apiLog[i].teams) : Occurrences(apiLog[i].teams, x) = 1

\* a request over two files that both require the same individual, and different teams
C22_Witness ==
    /\ RequestResolved
    /\ Len(requestMaps.files) = 2
    /\ \E i \in Places("pulls.requestReviewers") :
           /\ Len(apiLog[i].arg) = 2
           /\ Len(apiLog[i].teams) = 2
    /\ \E u \in Users :
           \A f \in Range(requestMaps.files) : u \in Requirement(f, requestMaps.policy)[1]
    /\ \E f, g \in Range(requestMaps.files) :
           Requirement(f, requestMaps.policy)[2] # Requirement(g, requestMaps.policy)[2]

\* C23: when the requestReviewers call fails the handler still completes: the next
\* action is the 'Failed to request reviews' comment, and no confirmation is posted
C23_RequestFailureReported ==
    RequestResolved =>
        \A i \in Places("pulls.requestReviewers") :
            ~apiLog[i].ok =>
                /\ Len(apiLog) = i + 1
                /\ apiLog[i + 1] = Comment("failed to request reviews")
                /\ \A j \in 1..Len(apiLog) : apiLog[j] # Comment("review requests sent")

\* a review request that failed
C23_Witness ==
    /\ RequestResolved
    /\ \E i \in Places("pulls.requestReviewers") : ~apiLog[i].ok
    /\ apiLog[Len(apiLog)] = Comment("failed to request reviews")

\* C24: when no listed file requires an individual or a team the handler calls no
\* requestReviewers and posts two comments: 'Finding appropriate reviewers' and the report
C24_NobodyToRequest ==
    (RequestResolved /\ RequestedIndividuals \cup RequestedTeams = {}) =>
        /\ Places("pulls.requestReviewers") = {}
        /\ \E report \in ReportComments :
               Calls(apiLog, "issues.createComment") = <<Comment("finding reviewers"), report>>

\* files were listed and none of them requires anybody
C24_Witness ==
    /\ RequestResolved
    /\ requestMaps.files # <<>>
    /\ RequestedIndividuals \cup RequestedTeams = {}
    /\ Len(apiLog) = 4

----------------------------------------------------------------------------
(* The review_submitted handler *)

\* the last event was a review_submitted event: apiLog holds the actions of its handler
\* and the last record of reviews is the review it was sent for
Submitted == lastEvent.name = "review_submitted"

SubmittedReview == reviews[Len(reviews)]

\* its handler read the policy and resolved the maps that the state holds
SubmittedResolved == Submitted /\ lastEvent.resolved

\* C25: a review_submitted event for a review that is not approved causes no API action
C25_NotApprovedNoAction ==
    (Submitted /\ SubmittedReview.state # "APPROVED") => apiLog = <<>>

\* a review that requests changes, from a required individual, on a pull request with a
\* requested '-approvers' team whose policy is readable
C25_Witness ==
    /\ Submitted
    /\ SubmittedReview.state = "CHANGES_REQUESTED"
    /\ lastEvent.team \in ApproverTeams
    /\ configs[lastEvent.team].readable
    /\ \E f \in Range(prFiles) :
           SubmittedReview.user \in Requirement(f, configs[lastEvent.team])[1]
    /\ apiLog = <<>>

\* C26: an approved review of a reviewer who satisfies no file leads to no comment, no
\* quorum evaluation and no approving review; the handler completes
C26_NoContributionNoAction ==
    (SubmittedResolved /\ ~SatisfiesSomeFile(SubmittedReview.user)) =>
        /\ Places("issues.createComment") = {}
        /\ Places("pulls.listReviews") = {}
        /\ Places("pulls.createReview") = {}
        /\ reviewerCheck.done
        /\ reviewerCheck.reviewer = SubmittedReview.user
        /\ reviewerCheck.out.satisfiedFiles = <<>>

\* an approved review of a reviewer who is looked up in a required team, is no active
\* member of it and is not listed for any file
C26_Witness ==
    /\ SubmittedResolved
    /\ SubmittedReview.state = "APPROVED"
    /\ fileApproverMap # <<>>
    /\ RequiredTeams # {}
    /\ ~SatisfiesSomeFile(SubmittedReview.user)
    /\ Places("teams.getMembershipForUserInOrg") # {}
    /\ apiLog[Len(apiLog)].op = "teams.getMembershipForUserInOrg"

----------------------------------------------------------------------------
(* Patterns with wildcards *)

\* the <<path, pattern>> pairs that match: "**" stands for any number of directories,
\* none included; "*" stays inside one segment
GlobTable ==
    { <<"backend/report.pdf", "backend/**/*.pdf">>,
      <<"backend/a/b/report.pdf", "backend/**/*.pdf">>,
      <<"backend/report.pdf", "backend/**/*">>,
      <<"backend/a/b/report.pdf", "backend/**/*">>,
      <<"backend/src/app.js", "backend/**/*">>,
      <<"docs/guide.md", "docs/*">> }

\* the rules of the policy whose pattern matches the file by the table
TableRules(f, policy) ==
    {i \in 1..Len(policy.patterns) : <<f, policy.patterns[i].pattern>> \in GlobTable}

TableOwners(f, policy) == UNION {Listed(policy.patterns[i].owners) : i \in TableRules(f, policy)}

TableTeams(f, policy) == UNION {Listed(policy.patterns[i].teamOwners) : i \in TableRules(f, policy)}

\* C27: a file resolves to the owners of the rules whose pattern matches it with "**"
\* standing for zero or more directories and "*" not reaching across a "/"; a file that
\* only such a reading would not match gets nothing from the rule
C27_GlobStarZeroOrMore ==
    \A f \in Range(prFiles) :
        /\ \A i \in 1..Len(ThePolicy.patterns) :
               minimatch(f, ThePolicy.patterns[i].pattern) <=> i \in TableRules(f, ThePolicy)
        /\ (TableOwners(f, ThePolicy) \cup TableTeams(f, ThePolicy) # {}) =>
               /\ Resolved(f)
               /\ Individuals(f) = TableOwners(f, ThePolicy)
               /\ TeamsOf(f) = TableTeams(f, ThePolicy)

\* 'backend/report.pdf' and 'backend/a/b/report.pdf' both resolved to the owners of the
\* 'backend/**/*.pdf' rule and of the 'backend/**/*' rule, which list different teams
C27_Witness ==
    /\ Len(ThePolicy.patterns) = 2
    /\ ThePolicy.patterns[1].pattern = "backend/**/*.pdf"
    /\ ThePolicy.patterns[2].pattern = "backend/**/*"
    /\ Listed(ThePolicy.patterns[1].teamOwners) = {"pdf-team"}
    /\ Listed(ThePolicy.patterns[2].teamOwners) = {"backend-team"}
    /\ Listed(ThePolicy.patterns[2].owners) = {"alice"}
    /\ prFiles = <<"backend/a/b/report.pdf", "backend/report.pdf">>
    /\ \A f \in Range(prFiles) :
           /\ Resolved(f)
           /\ Individuals(f) = {"alice"}
           /\ TeamsOf(f) = {"pdf-team", "backend-team"}

\* 'docs/api/index.md' gets nothing from a 'docs/*' rule that lists owners, while
\* 'docs/guide.md' gets them
C27_WitnessSingleStar ==
    /\ Len(ThePolicy.patterns) = 1
    /\ ThePolicy.patterns[1].pattern = "docs/*"
    /\ ~ThePolicy.fallback.present
    /\ prFiles = <<"docs/api/index.md", "docs/guide.md">>
    /\ Resolved("docs/api/index.md") /\ Resolved("docs/guide.md")
    /\ Individuals("docs/api/index.md") = {}
    /\ Individuals("docs/guide.md") # {}

----------------------------------------------------------------------------
(* A change set with no files *)

\* C28: for a change set with no files findApprovers returns empty maps, whatever the
\* policy; the report made of them says that no files were found and
\* requestReviewsFromApprovers issues no action
C28_NoFilesNothingRequired ==
    (events = 1 /\ prFiles = <<>>) =>
        /\ fileApproverMap = <<>>
        /\ fileTeamApproverMap = <<>>
        /\ generateApproversComment(fileApproverMap, fileTeamApproverMap)
               = Comment("report: no files found")
        /\ \A requestOk \in BOOLEAN :
               requestReviewsFromApprovers(fileApproverMap, fileTeamApproverMap, requestOk) = <<>>

\* an empty change set was resolved against a policy with two rules that name owners and a
\* fallback that names owners too
C28_Witness ==
    /\ events = 1
    /\ prFiles = <<>>
    /\ Len(ThePolicy.patterns) = 2
    /\ \A i \in 1..2 : Listed(ThePolicy.patterns[i].owners) # {}
    /\ ThePolicy.fallback.present
    /\ Listed(ThePolicy.fallback.owners) # {}
    /\ fileApproverMap = <<>>

\* the same in the review_requested handler: with no files listed its actions are the read
\* of the config, the 'Finding' comment, the listing and the 'no files found' report
C28_HandlerReportsNoFiles ==
    (RequestResolved /\ requestMaps.files = <<>>) =>
        apiLog = << Api("repos.getContent", <<lastEvent.team>>),
                    Comment("finding reviewers"),
                    Api("pulls.listFiles", <<>>),
                    Comment("report: no files found") >>

C28_WitnessHandler ==
    /\ RequestResolved
    /\ requestMaps.files = <<>>
    /\ Len(requestMaps.policy.patterns) > 0

----------------------------------------------------------------------------
(* The automatic approval *)

\* the places of the log that show a call of approvePullRequest: its createReview, or the
\* failure comment that follows when it returned false (with no GITHUB_TOKEN it returns
\* false before any call)
ApprovalPlaces ==
    Places("pulls.createReview")
        \cup {i \in 1..Len(apiLog) : apiLog[i] = Comment("automatic approval failed")}

FinalCommentPlaces ==
    {i \in 1..Len(apiLog) : apiLog[i] = Comment("all required approvals received")}

\* C29: approvePullRequest is called only by the handler of a review_submitted event whose
\* evaluation returned allCriteriaMet = true, after the final comment of that event, and
\* then every required individual has an approved live record and every required team an
\* active member with an approved live record in the list of reviews the event read
C29_ApprovalOnlyWhenMet ==
    (ApprovalPlaces # {}) =>
        /\ SubmittedResolved
        /\ evalCur.done
        /\ evalCur.out.allCriteriaMet
        /\ evalCur.listing = Listing(TRUE, reviews)
        /\ Quorum(evalCur.listing.data)
        /\ \A i \in ApprovalPlaces : \E j \in FinalCommentPlaces : j < i
        /\ Cardinality(FinalCommentPlaces) = 1
        /\ Cardinality(Places("pulls.createReview")) <= 1

\* the approval was created by the second of two reviews, with an individual and a team
\* required
C29_Witness ==
    /\ Places("pulls.createReview") # {}
    /\ Len(reviews) = 2
    /\ evalPrev.done /\ ~evalPrev.out.allCriteriaMet
    /\ RequiredIndividuals # {}
    /\ RequiredTeams # {}

\* approvePullRequest returned false for want of a token: no createReview, the failure
\* comment after the final comment
C29_WitnessNoToken ==
    /\ Places("pulls.createReview") = {}
    /\ ApprovalPlaces # {}

----------------------------------------------------------------------------
(* SpecCompletion: the review_submitted handler run await by await.  Every awaited call *)
(* settles; a call that the handler does not wrap in try/catch and that is rejected      *)
(* ends the handler.                                                                      *)

Thrown == "thrown"   \* an awaited call outside any try/catch was rejected

\* a policy that names one individual and no team
AliceOnly == Policy(<<Rule("backend/**/*", Str("alice"), Absent)>>, NoFallback)

CompletionConfigs == {ScenarioA, TwoOwners, AliceOnly, NullConfig}

CompletionTeams == {<<PlainTeam>>, <<PlainTeam, ApproverTeam>>}

InitCompletion ==
    /\ configs \in {OnlyConfig(policy) : policy \in CompletionConfigs}
    /\ prFiles \in HandlerChangeSets
    /\ membership \in HandlerMemberships
    /\ requestedTeams \in CompletionTeams
    /\ reviews = <<>>
    /\ fileApproverMap = <<>>
    /\ fileTeamApproverMap = <<>>
    /\ requestMaps = NoRequest
    /\ evalCur = NoEval
    /\ evalPrev = NoEval
    /\ apiLog = <<>>
    /\ lastEvent = NoEvent
    /\ reviewerCheck = NoSatisfaction
    /\ pc = Idle
    /\ events = 0

\* a review is submitted and the handler starts: the state of the review, the approver team
\* among requested_teams, the read of its config
Deliver(review) ==
    LET approverTeam == FindApproverTeam(requestedTeams)
        approversConfig == readApproversConfig(approverTeam)
    IN  /\ pc \in {Idle, Thrown}
        /\ Len(reviews) < MaxReviews
        /\ review.submitted_at = Len(reviews) + 1
        /\ reviews' = Append(reviews, review)
        /\ events' = events + 1
        /\ lastEvent' = [name |-> "review_submitted", resolved |-> FALSE, team |-> approverTeam]
        /\ IF ~IsApprovedReview(review) \/ approverTeam = NoTeam
           THEN apiLog' = <<>> /\ pc' = Idle
           ELSE /\ apiLog' = <<Api("repos.getContent", <<approverTeam>>)>>
                /\ pc' = IF approversConfig.readable THEN "listFiles" ELSE Idle
        /\ UNCHANGED <<configs, prFiles, requestedTeams, membership, fileApproverMap,
                       fileTeamApproverMap, requestMaps, evalCur, evalPrev, reviewerCheck>>

\* await findApprovers: pulls.listFiles, outside any try/catch, then the maps
ListFiles(ok) ==
    LET maps == ResolveAtSubmission(prFiles, readApproversConfig(lastEvent.team))
    IN  /\ pc = "listFiles"
        /\ apiLog' = Append(apiLog, Answered(Api("pulls.listFiles", <<>>), ok))
        /\ IF ok
           THEN /\ fileApproverMap' = maps[1]
                /\ fileTeamApproverMap' = maps[2]
                /\ lastEvent' = [lastEvent EXCEPT !.resolved = TRUE]
                /\ pc' = "membership"
           ELSE /\ pc' = Thrown
                /\ UNCHANGED <<fileApproverMap, fileTeamApproverMap, lastEvent>>
        /\ UNCHANGED <<configs, prFiles, requestedTeams, reviews, membership, requestMaps,
                       evalCur, evalPrev, reviewerCheck, events>>

\* await checkReviewerSatisfaction, and the return when the reviewer satisfies no file
CheckSubmitter ==
    LET reviewer == reviews[Len(reviews)].user
        satisfaction == checkReviewerSatisfaction(reviewer, fileApproverMap,
                                                  fileTeamApproverMap, membership)
    IN  /\ pc = "membership"
        /\ apiLog' = apiLog \o LookupLog(reviewer, fileTeamApproverMap)
        /\ reviewerCheck' = [done |-> TRUE, reviewer |-> reviewer, out |-> satisfaction]
        /\ pc' = IF NoContribution(satisfaction) THEN Idle ELSE "comment"
        /\ UNCHANGED <<configs, prFiles, requestedTeams, reviews, membership, fileApproverMap,
                       fileTeamApproverMap, requestMaps, evalCur, evalPrev, lastEvent, events>>

\* await createComment of the 'Review Approval Received' comment, outside any try/catch:
\* a rejected call ends the handler
PostReceived(ok) ==
    /\ pc = "comment"
    /\ apiLog' = Append(apiLog, Answered(Comment("review approval received"), ok))
    /\ pc' = IF ok THEN "evaluate" ELSE Thrown
    /\ UNCHANGED <<configs, prFiles, requestedTeams, reviews, membership, fileApproverMap,
                   fileTeamApproverMap, requestMaps, evalCur, evalPrev, lastEvent,
                   reviewerCheck, events>>

\* await checkAllApprovalCriteriaMet: the listing, the lookups, the result
EvaluateQuorum(listOk) ==
    LET listing == Listing(listOk, IF listOk THEN reviews ELSE <<>>)
        approvalStatus == checkAllApprovalCriteriaMet(listing, fileApproverMap,
                                                      fileTeamApproverMap, membership)
    IN  /\ pc = "evaluate"
        /\ apiLog' = Append(apiLog, Answered(Api("pulls.listReviews", <<>>), listOk))
                        \o LookupLogs(getAllApprovedReviews(listing), fileTeamApproverMap)
        /\ evalPrev' = evalCur
        /\ evalCur' = [done |-> TRUE, listing |-> listing, out |-> approvalStatus]
        /\ pc' = IF approvalStatus.allCriteriaMet THEN "finalComment" ELSE Idle
        /\ UNCHANGED <<configs, prFiles, requestedTeams, reviews, membership, fileApproverMap,
                       fileTeamApproverMap, requestMaps, lastEvent, reviewerCheck, events>>

\* await createComment of the 'All Required Approvals Received' comment, outside any
\* try/catch
PostFinal(ok) ==
    /\ pc = "finalComment"
    /\ apiLog' = Append(apiLog, Answered(Comment("all required approvals received"), ok))
    /\ pc' = IF ok THEN "approve" ELSE Thrown
    /\ UNCHANGED <<configs, prFiles, requestedTeams, reviews, membership, fileApproverMap,
                   fileTeamApproverMap, requestMaps, evalCur, evalPrev, lastEvent,
                   reviewerCheck, events>>

\* await approvePullRequest: it returns true or false, it never throws
Approve(tokenSet, approveOk) ==
    LET approval == approvePullRequest(tokenSet, approveOk)
    IN  /\ pc = "approve"
        /\ apiLog' = apiLog \o approval.log
        /\ pc' = IF approval.success THEN Idle ELSE "failureComment"
        /\ UNCHANGED <<configs, prFiles, requestedTeams, reviews, membership, fileApproverMap,
                       fileTeamApproverMap, requestMaps, evalCur, evalPrev, lastEvent,
                       reviewerCheck, events>>

\* await createComment of the 'automatic approval failed' comment, outside any try/catch
PostFailure(ok) ==
    /\ pc = "failureComment"
    /\ apiLog' = Append(apiLog, Answered(Comment("automatic approval failed"), ok))
    /\ pc' = IF ok THEN Idle ELSE Thrown
    /\ UNCHANGED <<configs, prFiles, requestedTeams, reviews, membership, fileApproverMap,
                   fileTeamApproverMap, requestMaps, evalCur, evalPrev, lastEvent,
                   reviewerCheck, events>>

\* the handler goes on from the await at which it stands
HandlerStep ==
    \/ \E ok \in BOOLEAN : ListFiles(ok)
    \/ CheckSubmitter
    \/ \E ok \in BOOLEAN : PostReceived(ok)
    \/ \E listOk \in BOOLEAN : EvaluateQuorum(listOk)
    \/ \E ok \in BOOLEAN : PostFinal(ok)
    \/ \E approval \in ApprovalOutcomes : Approve(approval[1], approval[2])
    \/ \E ok \in BOOLEAN : PostFailure(ok)

NextCompletion ==
    \/ \E review \in ReviewRecords : Deliver(review)
    \/ HandlerStep

\* every awaited call settles and the event loop resumes the handler
SpecCompletion == InitCompletion /\ [][NextCompletion]_vars /\ WF_vars(HandlerStep)

\* the steps add up to the handler: when the handler has returned, its actions are those of
\* ReviewSubmittedHandler for some outcome of the listing and of the approval
StepsAreTheHandler ==
    (pc = Idle /\ reviews # <<>>) =>
        \E listOk \in BOOLEAN, approval \in ApprovalOutcomes :
            apiLog = ReviewSubmittedHandler(
                         reviews[Len(reviews)], requestedTeams,
                         Listing(listOk, IF listOk THEN reviews ELSE <<>>),
                         approval[1], approval[2]).log

\* the individuals or teams named by a map
NamedBy(map) == UNION {Range(map[i].val) : i \in 1..Len(map)}

\* the quorum condition over a review history, for the maps given
QuorumOver(fam, ftam, data) ==
    /\ \A u \in NamedBy(fam) : u \in LiveApproved(data)
    /\ \A t \in NamedBy(ftam) : \E u \in LiveApproved(data) : ActiveMember(u, t)
    /\ NamedBy(fam) \cup NamedBy(ftam) # {}

\* the live record of the submitted review makes the quorum condition true: the condition
\* holds over the reviews for the policy and the files at hand, and fails without the
\* records of its reviewer
CompletesQuorum ==
    LET maps == findApprovers(prFiles, readApproversConfig(lastEvent.team))
        data == reviews
    IN  /\ QuorumOver(maps[1], maps[2], data)
        /\ ~QuorumOver(maps[1], maps[2], WithoutUser(data, data[Len(data)].user))

\* the handler got past the guards: approved review, approver team found, policy read
Handling(n) == Len(reviews) = n /\ pc = "listFiles"

FinalCommentPosted == \E i \in 1..Len(apiLog) : apiLog[i] = Comment("all required approvals received")

\* approvePullRequest was called: its createReview, or the handler stands at or past the
\* failure comment
ApprovalAttempted ==
    \/ Places("pulls.createReview") # {}
    \/ pc = "failureComment"
    \/ \E i \in 1..Len(apiLog) : apiLog[i].arg = <<"automatic approval failed">>

Completed(n) == Len(reviews) = n /\ FinalCommentPosted /\ ApprovalAttempted

ListingFailed(n) ==
    /\ Len(reviews) = n
    /\ \E i \in Places("pulls.listReviews") : ~apiLog[i].ok

\* pulls.listFiles or a createComment before the approval was rejected
UncaughtFailure(n) == Len(reviews) = n /\ pc = Thrown /\ ~ApprovalAttempted

C30_WitnessQuorumStoodBefore ==
    /\ Len(reviews) = 2
    /\ pc = Idle
    /\ IsApprovedReview(reviews[2])
    /\ lastEvent.resolved
    /\ QuorumOver(fileApproverMap, fileTeamApproverMap, reviews)
    /\ ~CompletesQuorum
    /\ reviewerCheck.reviewer = reviews[2].user
    /\ NoContribution(reviewerCheck.out)
    /\ ~FinalCommentPosted

----------------------------------------------------------------------------
(* Records of one reviewer with the same submission time *)

\* the places of the records of u that have the latest submission time among u's records
LatestPlaces(data, u) ==
    {i \in 1..Len(data) :
        /\ data[i].user = u
        /\ \A j \in 1..Len(data) :
               data[j].user = u => data[j].submitted_at <= data[i].submitted_at}

\* the first of them in the order of the list
FirstLatest(data, u) ==
    CHOOSE i \in LatestPlaces(data, u) : \A j \in LatestPlaces(data, u) : i <= j

\* C31: of several records of one reviewer with the same, latest submission time the one
\* listed first is the record getAllApprovedReviews keeps: the reviewer is among the
\* approved reviews exactly when that record is approved
C31_TieKeepsFirstListed ==
    (evalCur.done /\ evalCur.listing.ok) =>
        LET data == evalCur.listing.data
            kept == LatestLoop(data, <<>>)
            approved == getAllApprovedReviews(evalCur.listing)
        IN  \A u \in Users :
                HasRecord(data, u) =>
                    /\ MapHas(kept, u)
                    /\ MapGet(kept, u) = data[FirstLatest(data, u)]
                    /\ (\E k \in 1..Len(approved) : approved[k].user = u)
                           <=> data[FirstLatest(data, u)].state = "APPROVED"

\* a reviewer approved and requested changes at the same time, the approval listed first:
\* the approval counts and completes the quorum
C31_Witness ==
    /\ evalCur.done /\ evalCur.listing.ok
    /\ evalCur.out.allCriteriaMet
    /\ \E u \in RequiredIndividuals :
           LET data == evalCur.listing.data
           IN  /\ Cardinality(LatestPlaces(data, u)) = 2
               /\ data[FirstLatest(data, u)].state = "APPROVED"
               /\ \E j \in LatestPlaces(data, u) : data[j].state # "APPROVED"

----------------------------------------------------------------------------
(* A listing of the reviews that fails *)

\* the handler of the last event called pulls.listReviews and the call failed
ListReviewsFailed ==
    /\ Submitted
    /\ \E i \in Places("pulls.listReviews") : ~apiLog[i].ok

\* C32: when pulls.listReviews fails getAllApprovedReviews returns the empty list, the
\* evaluation returns allCriteriaMet = false with no satisfied file and no summary entry,
\* and the handler ends there: no lookup, no final comment, no approval
C32_ListingFailureMeansNotMet ==
    ListReviewsFailed =>
        /\ evalCur.done
        /\ ~evalCur.listing.ok
        /\ getAllApprovedReviews(evalCur.listing) = <<>>
        /\ evalCur.out = [allCriteriaMet |-> FALSE, satisfiedFiles |-> <<>>,
                          approverSummary |-> <<>>]
        /\ apiLog[Len(apiLog)].op = "pulls.listReviews"
        /\ Cardinality(Places("pulls.listReviews")) = 1
        /\ FinalCommentPlaces = {}
        /\ ApprovalPlaces = {}

\* the listing failed for an event whose review completes the quorum over the reviews that
\* were submitted
C32_Witness ==
    /\ ListReviewsFailed
    /\ QuorumOver(fileApproverMap, fileTeamApproverMap, reviews)
    /\ Len(reviews) = 2

----------------------------------------------------------------------------
(* An automatic approval that fails *)

FailureCommentPlaces ==
    {i \in 1..Len(apiLog) : apiLog[i].arg = <<"automatic approval failed">>}

\* C33: approvePullRequest returns false without any call when GITHUB_TOKEN is not set,
\* and false when createReview is rejected; after the final comment the handler then posts
\* the 'automatic approval failed' comment as its last action, and posts it in no other case
C33_ApprovalFailureReported ==
    /\ \A approveOk \in BOOLEAN :
           approvePullRequest(FALSE, approveOk) = [log |-> <<>>, success |-> FALSE]
    /\ approvePullRequest(TRUE, FALSE).success = FALSE
    /\ \A i \in FinalCommentPlaces :
           \/ /\ Len(apiLog) = i + 1
              /\ apiLog[i + 1] = Api("pulls.createReview", <<"APPROVE">>)
           \/ /\ Len(apiLog) = i + 2
              /\ apiLog[i + 1] = Answered(Api("pulls.createReview", <<"APPROVE">>), FALSE)
              /\ apiLog[i + 2] = Comment("automatic approval failed")
           \/ /\ Len(apiLog) = i + 1
              /\ apiLog[i + 1] = Comment("automatic approval failed")
    /\ \A j \in FailureCommentPlaces : \E i \in FinalCommentPlaces : i < j

\* createReview was rejected and the failure comment follows it
C33_Witness ==
    /\ \E i \in Places("pulls.createReview") : ~apiLog[i].ok
    /\ apiLog[Len(apiLog)] = Comment("automatic approval failed")

\* no GITHUB_TOKEN: the failure comment follows the final comment with no createReview
C33_WitnessNoToken ==
    /\ Len(apiLog) >= 2
    /\ apiLog[Len(apiLog) - 1] = Comment("all required approvals received")
    /\ apiLog[Len(apiLog)] = Comment("automatic approval failed")

\* run await by await: the handler is never ended by approvePullRequest; what ends it is a
\* rejected pulls.listFiles or a rejected createComment
C33_ApprovalNeverThrows ==
    (pc = Thrown) =>
        /\ ~apiLog[Len(apiLog)].ok
        /\ apiLog[Len(apiLog)].op \in {"pulls.listFiles", "issues.createComment"}

----------------------------------------------------------------------------
(* The files the evaluation returns as satisfied *)

\* the individuals and teams the maps require for a file
RequirementOf(f) ==
    Range(MapGetOrEmpty(fileApproverMap, f)) \cup Range(MapGetOrEmpty(fileTeamApproverMap, f))

MappedFiles == Range(MapKeys(fileApproverMap))

\* C34: an evaluation that returns allCriteriaMet = true returns every file that requires
\* somebody among the satisfied files, and no evaluation returns a file that requires nobody
\* (evalCur is read when the log shows the listing of the evaluation: the maps of the
\* state are then the ones it was given)
C34_CoveredAreTheRequiring ==
    (evalCur.done /\ Places("pulls.listReviews") # {}) =>
        /\ evalCur.out.allCriteriaMet =>
               \A f \in MappedFiles : RequirementOf(f) # {} => f \in CoveredFiles
        /\ \A f \in CoveredFiles : f \in MappedFiles /\ RequirementOf(f) # {}

\* the quorum is met over two files, one that requires somebody and one that requires
\* nobody: the satisfied files are the first alone
C34_Witness ==
    /\ evalCur.done
    /\ Places("pulls.listReviews") # {}
    /\ evalCur.out.allCriteriaMet
    /\ \E f \in MappedFiles : RequirementOf(f) = {}
    /\ \E f \in MappedFiles : RequirementOf(f) # {}
    /\ CoveredFiles = {f \in MappedFiles : RequirementOf(f) # {}}

----------------------------------------------------------------------------
(* SpecConcurrent: two handlers run at once and interleave at their awaits.  What a     *)
(* handler holds between awaits are the constants and variables of its own call; the     *)
(* module keeps nothing besides `yaml`.  The variables that are the locals of a handler  *)
(* hold one value per running handler here, and prFiles and reviews one per pull request. *)

Slots == {1, 2}   \* the handlers that run at once

Pulls == {1, 2}   \* the pull requests the events are about

NoReview == [user |-> "none", state |-> "none", submitted_at |-> 0]

\* events delivered in one behaviour of SpecConcurrent
MaxDeliveries == MaxEvents - 1

\* context.payload of the event a handler runs for
Payload(name, team, pull, review) ==
    [name |-> name, resolved |-> FALSE, team |-> team, pull |-> pull, review |-> review]

NoPayload == Payload("none", NoTeam, 0, NoReview)

ConcurrentConfigs == {ScenarioA, AliceOnly}

ConcurrentMemberships == {EveryoneActive, BobOnBackend}

InitConcurrent ==
    /\ configs \in {OnlyConfig(policy) : policy \in ConcurrentConfigs}
    /\ membership \in ConcurrentMemberships
    /\ prFiles = [pull \in Pulls |-> IF pull = 1 THEN OneFile ELSE TwoFiles]
    /\ reviews = [pull \in Pulls |-> <<>>]
    /\ requestedTeams = <<ApproverTeam>>
    /\ lastEvent = [h \in Slots |-> NoPayload]
    /\ pc = [h \in Slots |-> Idle]
    /\ apiLog = [h \in Slots |-> <<>>]
    /\ fileApproverMap = [h \in Slots |-> <<>>]
    /\ fileTeamApproverMap = [h \in Slots |-> <<>>]
    /\ reviewerCheck = [h \in Slots |-> NoSatisfaction]
    /\ evalCur = [h \in Slots |-> NoEval]
    /\ evalPrev = NoEval
    /\ requestMaps = NoRequest
    /\ events = 0

\* a handler that approves once for a pull request: it remembers that an approval was made
ShouldApprove_OncePerPull(h, approvalStatus) ==
    /\ approvalStatus.allCriteriaMet
    /\ \A g \in Slots \ {h} :
           \A i \in 1..Len(apiLog[g]) : apiLog[g][i].op # "pulls.createReview"

\* if (approvalStatus.allCriteriaMet): the result of this event's evaluation decides
ShouldApprove(h, approvalStatus) == approvalStatus.allCriteriaMet

\* a review_requested event arrives: the guard, the read of the config, the first comment
StartRequested(h, pull, team) ==
    /\ pc[h] = Idle
    /\ events < MaxDeliveries
    /\ events' = events + 1
    /\ lastEvent' = [lastEvent EXCEPT ![h] = Payload("review_requested", team, pull, NoReview)]
    /\ IF ~IsApproverRequest(team)
       THEN apiLog' = [apiLog EXCEPT ![h] = <<>>] /\ pc' = pc
       ELSE IF ~readApproversConfig(team).readable
       THEN apiLog' = [apiLog EXCEPT ![h] = ConfigNotFound(team).log] /\ pc' = pc
       ELSE /\ apiLog' = [apiLog EXCEPT ![h] = <<Api("repos.getContent", <<team>>),
                                                 Comment("finding reviewers")>>]
            /\ pc' = [pc EXCEPT ![h] = "request"]
    /\ fileApproverMap' = [fileApproverMap EXCEPT ![h] = <<>>]
    /\ fileTeamApproverMap' = [fileTeamApproverMap EXCEPT ![h] = <<>>]
    /\ reviewerCheck' = [reviewerCheck EXCEPT ![h] = NoSatisfaction]
    /\ evalCur' = [evalCur EXCEPT ![h] = NoEval]
    /\ UNCHANGED <<configs, prFiles, requestedTeams, reviews, membership, requestMaps, evalPrev>>

\* the review_requested handler goes on: findApprovers, the report, the review requests
FinishRequested(h, requestOk) ==
    LET maps == findApprovers(prFiles[lastEvent[h].pull], readApproversConfig(lastEvent[h].team))
        fam == SortedInPlace(maps[1])
        ftam == SortedInPlace(maps[2])
    IN  /\ pc[h] = "request"
        /\ apiLog' = [apiLog EXCEPT ![h] =
                         @ \o <<Api("pulls.listFiles", <<>>),
                                generateApproversComment(maps[1], maps[2])>>
                           \o requestReviewsFromApprovers(fam, ftam, requestOk)]
        /\ fileApproverMap' = [fileApproverMap EXCEPT ![h] = fam]
        /\ fileTeamApproverMap' = [fileTeamApproverMap EXCEPT ![h] = ftam]
        /\ lastEvent' = [lastEvent EXCEPT ![h].resolved = TRUE]
        /\ pc' = [pc EXCEPT ![h] = Idle]
        /\ UNCHANGED <<configs, prFiles, requestedTeams, reviews, membership, requestMaps,
                       evalCur, evalPrev, reviewerCheck, events>>

\* a review is submitted on a pull request and a handler starts for it: the guards and the
\* read of the config
StartSubmitted(h, pull, review) ==
    LET approverTeam == FindApproverTeam(requestedTeams)
    IN  /\ pc[h] = Idle
        /\ events < MaxDeliveries
        /\ Len(reviews[pull]) < MaxReviews
        /\ review.submitted_at = Len(reviews[pull]) + 1
        /\ events' = events + 1
        /\ reviews' = [reviews EXCEPT ![pull] = Append(@, review)]
        /\ lastEvent' = [lastEvent EXCEPT
                            ![h] = Payload("review_submitted", approverTeam, pull, review)]
        /\ IF ~IsApprovedReview(review) \/ approverTeam = NoTeam
           THEN apiLog' = [apiLog EXCEPT ![h] = <<>>] /\ pc' = pc
           ELSE /\ apiLog' = [apiLog EXCEPT ![h] = <<Api("repos.getContent", <<approverTeam>>)>>]
                /\ pc' = [pc EXCEPT ![h] = IF readApproversConfig(approverTeam).readable
                                           THEN "listFiles" ELSE Idle]
        /\ fileApproverMap' = [fileApproverMap EXCEPT ![h] = <<>>]
        /\ fileTeamApproverMap' = [fileTeamApproverMap EXCEPT ![h] = <<>>]
        /\ reviewerCheck' = [reviewerCheck EXCEPT ![h] = NoSatisfaction]
        /\ evalCur' = [evalCur EXCEPT ![h] = NoEval]
        /\ UNCHANGED <<configs, prFiles, requestedTeams, membership, requestMaps, evalPrev>>

\* await findApprovers
ResolveOf(h) ==
    LET maps == ResolveAtSubmission(prFiles[lastEvent[h].pull],
                                    readApproversConfig(lastEvent[h].team))
    IN  /\ pc[h] = "listFiles"
        /\ apiLog' = [apiLog EXCEPT ![h] = Append(@, Api("pulls.listFiles", <<>>))]
        /\ fileApproverMap' = [fileApproverMap EXCEPT ![h] = maps[1]]
        /\ fileTeamApproverMap' = [fileTeamApproverMap EXCEPT ![h] = maps[2]]
        /\ lastEvent' = [lastEvent EXCEPT ![h].resolved = TRUE]
        /\ pc' = [pc EXCEPT ![h] = "membership"]
        /\ UNCHANGED <<configs, prFiles, requestedTeams, reviews, membership, requestMaps,
                       evalCur, evalPrev, reviewerCheck, events>>

\* await checkReviewerSatisfaction, the return when nothing is satisfied, else the
\* 'Review Approval Received' comment
CheckOf(h) ==
    LET reviewer == lastEvent[h].review.user
        satisfaction == checkReviewerSatisfaction(reviewer, fileApproverMap[h],
                                                  fileTeamApproverMap[h], membership)
    IN  /\ pc[h] = "membership"
        /\ reviewerCheck' = [reviewerCheck EXCEPT
                                ![h] = [done |-> TRUE, reviewer |-> reviewer, out |-> satisfaction]]
        /\ IF NoContribution(satisfaction)
           THEN /\ apiLog' = [apiLog EXCEPT ![h] = @ \o LookupLog(reviewer, fileTeamApproverMap[h])]
                /\ pc' = [pc EXCEPT ![h] = Idle]
           ELSE /\ apiLog' = [apiLog EXCEPT ![h] =
                                 @ \o LookupLog(reviewer, fileTeamApproverMap[h])
                                   \o <<Comment("review approval received")>>]
                /\ pc' = [pc EXCEPT ![h] = "evaluate"]
        /\ UNCHANGED <<configs, prFiles, requestedTeams, reviews, membership, fileApproverMap,
                       fileTeamApproverMap, requestMaps, evalCur, evalPrev, lastEvent, events>>

\* await checkAllApprovalCriteriaMet: the reviews listed are those of the pull request now
EvaluateOf(h, listOk) ==
    LET listing == Listing(listOk, IF listOk THEN reviews[lastEvent[h].pull] ELSE <<>>)
        approvalStatus == checkAllApprovalCriteriaMet(listing, fileApproverMap[h],
                                                      fileTeamApproverMap[h], membership)
    IN  /\ pc[h] = "evaluate"
        /\ evalCur' = [evalCur EXCEPT
                          ![h] = [done |-> TRUE, listing |-> listing, out |-> approvalStatus]]
        /\ IF ShouldApprove(h, approvalStatus)
           THEN /\ apiLog' = [apiLog EXCEPT ![h] =
                                 Append(@, Answered(Api("pulls.listReviews", <<>>), listOk))
                                   \o LookupLogs(getAllApprovedReviews(listing),
                                                 fileTeamApproverMap[h])
                                   \o <<Comment("all required approvals received")>>]
                /\ pc' = [pc EXCEPT ![h] = "approve"]
           ELSE /\ apiLog' = [apiLog EXCEPT ![h] =
                                 Append(@, Answered(Api("pulls.listReviews", <<>>), listOk))
                                   \o LookupLogs(getAllApprovedReviews(listing),
                                                 fileTeamApproverMap[h])]
                /\ pc' = [pc EXCEPT ![h] = Idle]
        /\ UNCHANGED <<configs, prFiles, requestedTeams, reviews, membership, fileApproverMap,
                       fileTeamApproverMap, requestMaps, evalPrev, lastEvent, reviewerCheck,
                       events>>

\* await approvePullRequest, and the failure comment when it returned false
ApproveOf(h, tokenSet, approveOk) ==
    LET approval == approvePullRequest(tokenSet, approveOk)
    IN  /\ pc[h] = "approve"
        /\ apiLog' = [apiLog EXCEPT ![h] =
                         @ \o approval.log
                           \o (IF approval.success THEN <<>>
                               ELSE <<Comment("automatic approval failed")>>)]
        /\ pc' = [pc EXCEPT ![h] = Idle]
        /\ UNCHANGED <<configs, prFiles, requestedTeams, reviews, membership, fileApproverMap,
                       fileTeamApproverMap, requestMaps, evalCur, evalPrev, lastEvent,
                       reviewerCheck, events>>

NextConcurrent ==
    \/ \E h \in Slots, pull \in Pulls, team \in {ApproverTeam, PlainTeam} :
           StartRequested(h, pull, team)
    \/ \E h \in Slots, requestOk \in BOOLEAN : FinishRequested(h, requestOk)
    \/ \E h \in Slots, pull \in Pulls, review \in ReviewRecords : StartSubmitted(h, pull, review)
    \/ \E h \in Slots : ResolveOf(h)
    \/ \E h \in Slots : CheckOf(h)
    \/ \E h \in Slots, listOk \in BOOLEAN : EvaluateOf(h, listOk)
    \/ \E h \in Slots, approval \in ApprovalOutcomes : ApproveOf(h, approval[1], approval[2])

SpecConcurrent == InitConcurrent /\ [][NextConcurrent]_vars

\* the actions the handler of slot h issues when it runs alone for the same payload and gets
\* the same answers: the same files, the same listing of reviews, the same outcomes
RanAsAlone(h) ==
    LET event == lastEvent[h]
    IN  IF event.name = "review_submitted"
        THEN \E approval \in ApprovalOutcomes :
                 apiLog[h] = ReviewSubmittedHandlerOn(prFiles[event.pull], event.review,
                                                      requestedTeams, evalCur[h].listing,
                                                      approval[1], approval[2]).log
        ELSE \E requestOk \in BOOLEAN :
                 apiLog[h] = ReviewRequestedHandlerOn(prFiles[event.pull], event.team,
                                                      requestOk).log

Returned(h) == pc[h] = Idle /\ lastEvent[h].name # "none"

ApprovalCalled(h) ==
    \E i \in 1..Len(apiLog[h]) :
        \/ apiLog[h][i].op = "pulls.createReview"
        \/ apiLog[h][i].arg = <<"automatic approval failed">>

\* C35: whatever the interleaving of two handlers, a handler that has returned has issued
\* the actions it issues when run alone against the same answers, and it has called
\* approvePullRequest exactly when its own evaluation returned allCriteriaMet = true,
\* whether or not another handler has approved already
C35_InterleavingChangesNothing ==
    \A h \in Slots :
        Returned(h) =>
            /\ RanAsAlone(h)
            /\ ApprovalCalled(h) <=> (evalCur[h].done /\ evalCur[h].out.allCriteriaMet)

\* two handlers for two reviews of one pull request overlap: the handler of the first
\* review has evaluated and is about to approve while the handler of the second review,
\* which started later, has returned and has created its approval
C35_Witness ==
    \E h \in Slots, g \in Slots :
        /\ h # g
        /\ lastEvent[h].name = "review_submitted" /\ lastEvent[g].name = "review_submitted"
        /\ lastEvent[h].pull = lastEvent[g].pull
        /\ lastEvent[h].review.submitted_at = 1
        /\ lastEvent[g].review.submitted_at = 2
        /\ pc[h] = "approve"
        /\ Returned(g)
        /\ \E i \in 1..Len(apiLog[g]) : apiLog[g][i].op = "pulls.createReview"

\* both have returned, each with its approval
C35_WitnessBothApproved ==
    /\ \A h \in Slots :
           /\ Returned(h)
           /\ \E i \in 1..Len(apiLog[h]) : apiLog[h][i].op = "pulls.createReview"
    /\ lastEvent[1].pull = lastEvent[2].pull

----------------------------------------------------------------------------
(* The policy of a review_submitted event *)

\* a step of the review_submitted handler for an approved review
ApprovedSubmitStep ==
    /\ events' = events + 1
    /\ lastEvent'.name = "review_submitted"
    /\ Len(reviews') = Len(reviews) + 1
    /\ IsApprovedReview(reviews'[Len(reviews')])

\* the handler stopped before it listed, looked up, posted, evaluated or approved
\* anything, and it kept what it had
StoppedAfter(log) ==
    /\ apiLog' = log
    /\ fileApproverMap' = fileApproverMap
    /\ fileTeamApproverMap' = fileTeamApproverMap
    /\ reviewerCheck' = reviewerCheck
    /\ evalCur' = evalCur

\* C36: the handler of an approved review reads the config of the first requested team
\* whose name ends in '-approvers' and resolves the files against it; with no such team
\* it does nothing at all, and when that config cannot be read it does nothing after the
\* attempt to read: no file listing, no lookup, no comment, no evaluation, no approval
C36_PolicyOfFirstApproverTeam ==
    [][ApprovedSubmitStep =>
          LET team == FirstApproverTeam(requestedTeams)
          IN  /\ lastEvent'.team = team
              /\ team = NoTeam => StoppedAfter(<<>>)
              /\ (team # NoTeam /\ ~configs[team].readable) =>
                     StoppedAfter(<<Api("repos.getContent", <<team>>)>>)
              /\ (team # NoTeam /\ configs[team].readable) =>
                     /\ Calls(apiLog', "repos.getContent") = <<Api("repos.getContent", <<team>>)>>
                     /\ apiLog'[2] = Api("pulls.listFiles", <<>>)
                     /\ <<fileApproverMap', fileTeamApproverMap'>>
                            = findApprovers(prFiles, configs[team])
      ]_vars

\* two '-approvers' teams are requested and the later requested one comes first in
\* requested_teams: the handler read its config and resolved the files against it, and the
\* config of the other team gives other maps
C36_Witness ==
    /\ Submitted
    /\ Len(requestedTeams) = 2
    /\ requestedTeams[1] = OtherApproverTeam
    /\ requestedTeams[2] = ApproverTeam
    /\ lastEvent.resolved
    /\ apiLog[1] = Api("repos.getContent", <<OtherApproverTeam>>)
    /\ <<fileApproverMap, fileTeamApproverMap>> = findApprovers(prFiles, configs[OtherApproverTeam])
    /\ configs[ApproverTeam].readable
    /\ <<fileApproverMap, fileTeamApproverMap>> # findApprovers(prFiles, configs[ApproverTeam])

\* the config of the approver team cannot be read: one read and nothing else
C36_WitnessUnreadable ==
    /\ Submitted
    /\ IsApprovedReview(SubmittedReview)
    /\ lastEvent.team # NoTeam
    /\ ~configs[lastEvent.team].readable
    /\ apiLog = <<Api("repos.getContent", <<lastEvent.team>>)>>
    /\ prFiles # <<>>

\* a team is requested, none whose name ends in '-approvers': no action
C36_WitnessNoApproverTeam ==
    /\ Submitted
    /\ IsApprovedReview(SubmittedReview)
    /\ requestedTeams # <<>>
    /\ lastEvent.team = NoTeam
    /\ apiLog = <<>>

----------------------------------------------------------------------------
(* SpecNormalise: findApprovers applied to policies that carry every shape of an `owners` *)
(* value: absent, one string (the empty string too), a list, a list with repetitions       *)

\* <<owners, team-owners>> of a rule
ShapeCombos ==
    { <<Str("alice"), Str("backend-team")>>,
      <<Arr(<<"alice">>), Arr(<<"backend-team">>)>>,
      <<Arr(<<"bob", "alice", "bob">>), Str("pdf-team")>>,
      <<Str("bob"), Arr(<<"pdf-team", "pdf-team">>)>>,
      <<Str(""), Absent>>,
      <<Absent, Arr(<<"">>)>> }

ShapePatterns == {"backend/**/*", "backend/**/*.pdf"}

ShapeRules == {Rule(p, c[1], c[2]) : p \in ShapePatterns, c \in ShapeCombos}

ShapeFallbacks ==
    { NoFallback,
      Fallback(Str("bob"), Arr(<<"backend-team">>)),
      Fallback(Arr(<<"bob", "bob">>), Str("")) }

ShapePolicies == {Policy(rs, fb) : rs \in SeqsUpTo(ShapeRules, MaxRules), fb \in ShapeFallbacks}

InitNormalise ==
    /\ configs \in {OnlyConfig(policy) : policy \in ShapePolicies}
    /\ prFiles = <<>>
    /\ requestedTeams = <<ApproverTeam>>
    /\ reviews = <<>>
    /\ membership = NoMembership
    /\ fileApproverMap = <<>>
    /\ fileTeamApproverMap = <<>>
    /\ requestMaps = NoRequest
    /\ evalCur = NoEval
    /\ evalPrev = NoEval
    /\ apiLog = <<>>
    /\ lastEvent = NoEvent
    /\ reviewerCheck = NoSatisfaction
    /\ pc = Idle
    /\ events = 0

NextNormalise == \E files \in FileLists : ResolveChangeSet(files)

SpecNormalise == InitNormalise /\ [][NextNormalise]_vars

\* a value written as the list of what it lists: a string becomes the one-element list
AsList(field) == IF field.kind = "string" THEN Arr(field.val) ELSE field

\* the same, with the empty string taken as no value
AsListUnlessEmpty(field) ==
    IF field.kind = "string"
    THEN (IF field.val[1] = "" THEN Absent ELSE Arr(field.val))
    ELSE field

\* the policy with every owners and team-owners value rewritten by Op
Rewritten(policy, Op(_)) ==
    [readable |-> policy.readable,
     patterns |-> [i \in 1..Len(policy.patterns) |->
                      Rule(policy.patterns[i].pattern,
                           Op(policy.patterns[i].owners),
                           Op(policy.patterns[i].teamOwners))],
     fallback |-> [present |-> policy.fallback.present,
                   owners |-> Op(policy.fallback.owners),
                   teamOwners |-> Op(policy.fallback.teamOwners)]]

\* a value that lists an identifier more than once, or a file matched by two rules that
\* list the same identifier
NoRepetition(q) == \A i, j \in 1..Len(q) : q[i] = q[j] => i = j

OnceEach ==
    /\ \A i \in 1..Len(fileApproverMap) : NoRepetition(fileApproverMap[i].val)
    /\ \A i \in 1..Len(fileTeamApproverMap) : NoRepetition(fileTeamApproverMap[i].val)

Resolution == <<fileApproverMap, fileTeamApproverMap>>

\* C37: the requirement maps are those of the policy in which every value that is one
\* non-empty string is written as the one-element list of that string and every empty
\* string is left out, and no identifier is twice in the requirement of a file
C37_StringAsListUnlessEmpty ==
    events = 1 =>
        /\ Resolution = findApprovers(prFiles, Rewritten(ThePolicy, AsListUnlessEmpty))
        /\ OnceEach

\* C37 as stated: the requirement maps are those of the policy in which every value that
\* is one string is written as the one-element list of that string
C37_StringAsList ==
    events = 1 =>
        /\ Resolution = findApprovers(prFiles, Rewritten(ThePolicy, AsList))
        /\ OnceEach

\* two rules match the file; one gives its owner as a string, the other lists the same
\* owner twice among others; the fallback is not used and the owner is there once
C37_Witness ==
    /\ events = 1
    /\ prFiles # <<>>
    /\ Len(ThePolicy.patterns) = 2
    /\ ThePolicy.patterns[1].owners = Str("bob")
    /\ ThePolicy.patterns[2].owners = Arr(<<"bob", "alice", "bob">>)
    /\ ThePolicy.patterns[1].teamOwners = Arr(<<"pdf-team", "pdf-team">>)
    /\ ThePolicy.patterns[2].teamOwners = Str("pdf-team")
    /\ \A i \in 1..Len(fileApproverMap) :
           /\ fileApproverMap[i].val = <<"bob", "alice">>
           /\ fileTeamApproverMap[i].val = <<"pdf-team">>

\* a rule whose owners value is the empty string matches the file: it gives nothing, and
\* the fallback is used, where the list holding the empty string would give an owner
C37_WitnessEmptyString ==
    /\ events = 1
    /\ prFiles = <<"backend/src/app.js">>
    /\ Len(ThePolicy.patterns) = 1
    /\ ThePolicy.patterns[1].owners = Str("")
    /\ ThePolicy.fallback = Fallback(Str("bob"), Arr(<<"backend-team">>))
    /\ fileApproverMap[1].val = <<"bob">>
    /\ findApprovers(prFiles, Rewritten(ThePolicy, AsList))[1][1].val = <<"">>

====
